---- MODULE Spec2Model ----
(***************************************************************************)
(* Model of the conversation session lifecycle of the IELTS speaking       *)
(* practice client.                                                        *)
(*                                                                         *)
(* ElevenLabsConversationService (src/services/WebSocketService.ts,        *)
(* lines 172-467) is a singleton whose methods are async functions.  The   *)
(* JavaScript event loop runs one callback at a time, so a method runs     *)
(* atomically from one await to the next; several invocations may be       *)
(* suspended at an await at the same time.  Every invocation is a record   *)
(* in calls, and there is one action per synchronous segment of a method:  *)
(* the call itself (up to the first await) and one per completion of an    *)
(* awaited operation.  The outcome of every awaited operation (a fetch, an *)
(* expo-av call) is chosen by the environment.  What the caller of the     *)
(* invocation that settled last observes (resolved or rejected, with which *)
(* value or error) is kept in last.                                        *)
(*                                                                         *)
(* The PracticeScreen (src/unnamed/part_003, lines 724-870) drives the     *)
(* service: an invocation it awaits carries the name of the handler in by, *)
(* and the handler goes on in the step in which the invocation settles.    *)
(* The handler of the conversation endpoint                                *)
(* (src/functions/elevenlabs-conversation/index.ts) is an invocation too.  *)
(*                                                                         *)
(* Date.now() is not modelled: the fields id, timestamp and startTime,     *)
(* which only hold clock readings, are left out of the records.            *)
(***************************************************************************)
EXTENDS Naturals, Sequences, FiniteSets

----------------------------------------------------------------------------
(* Bounds                                                                  *)

\* Invocations of service methods that may be in flight at the same time.
MaxCalls == 2
\* Invocations of service methods in one behaviour.
MaxInvocations == 3
\* Audio.Recording objects that may exist at the same time.
MaxRecordings == 2
\* Audio.Sound objects that may exist at the same time.
MaxSounds == 2
\* Elements a caller lets an array it got from getMessages() grow to.
MaxSnapshotLen == 3
\* WebSocket objects that may be alive (not yet closed) at the same time.
MaxTransports == 2
\* Calls of WebSocketService.send in one behaviour.
MaxSends == 2
\* Reconnect timers that may be pending at the same time.
MaxTimers == 1
\* Listeners that may be registered at the same time, over all types.
MaxListeners == 2
\* Presses of the microphone button that start a capture, in one behaviour.
MaxCaptures == 2

Slots == 1..MaxCalls
RecordingIds == 1..MaxRecordings
SoundIds == 1..MaxSounds

----------------------------------------------------------------------------
(* Values                                                                  *)

\* JavaScript null (a reference that holds no object).
Null == <<>>
\* JavaScript undefined, for a property a JSON body does not carry.
Undefined == "undefined"
\* The null audio handle.
NoHandle == 0

\* The content of a user message when the reply carries no transcript.
Placeholder == "[Audio message]"

\* Inputs and remote answers.
AudioUris == {"file:rec1"}
ConversationIds == {"c1", "c2"}
AgentIds == {"a1"}
Transcripts == {Undefined, "", "I live in Boston"}
Replies == {Undefined, "Tell me more"}
AudioUrls == {Undefined, "u1"}

\* JSON bodies of a successful start_conversation and send_audio answer.
StartData == [conversation_id : ConversationIds, agent_id : AgentIds]
SendData == [user_transcript : Transcripts, agent_response : Replies,
             agent_audio_url : AudioUrls]

\* How an awaited HTTP exchange can end: fetch rejects (transport error),
\* the response has a non-success status, its body is not JSON, or all is well.
HttpOutcomes == {"ok", "reject", "notok", "badjson"}
\* How an awaited device or file operation can end.
IoOutcomes == {"ok", "fail"}

\* JavaScript truthiness of a string-or-undefined value (the left operand of ||).
Truthy(v) == v # Undefined /\ v # ""

VARIABLES
  currentSession,   \* this.currentSession: Null or a ConversationSession
  messages,         \* this.messages: sequence of ConversationMessage
  audioRecording,   \* this.audioRecording: NoHandle or a recording id
  audioSound,       \* this.audioSound: NoHandle or a sound id
  calls,            \* the invocations of service methods in flight, by slot
  last,             \* what the caller of the last settled invocation observes
  invoked,          \* the number of invocations made so far
  activeRecordings, \* device: recordings started and not stopped
  preparedRecordings, \* device: recordings prepared and not unloaded
  recorderExists,   \* expo-av: a Recording object holds the one recorder
  loadedSounds,     \* device: sounds created and not unloaded
  playingSounds,    \* device: sounds that are playing
  parallel,         \* how many invocations the caller keeps in flight
  snapshot          \* the array a caller got from getMessages(), if any

VARIABLES
  socket,            \* this.socket: NoSocket or a transport id
  reconnectAttempts, \* this.reconnectAttempts
  messageQueue,      \* this.messageQueue: messages waiting for an open socket
  listeners,         \* this.listeners: message type -> registered listeners
  readyState,        \* readyState of every WebSocket object
  promises,          \* the promise of the connect call that made each object
  timers,            \* the delays of the pending reconnect timers
  wire,              \* the frames handed to transports, in order
  sent,              \* the number of send calls so far
  hung,              \* the event loop is stuck in a handler that never ends
  released,          \* the caller called disconnect() and not connect() since
  event              \* the handler or method that ran last, and for an
                     \* inbound frame the listeners it called

VARIABLES
  currentSound       \* ElevenLabsService.currentSound: NoHandle or a sound id

VARIABLES
  native,            \* the build: Alert.alert shows a modal dialog (TRUE) or
                     \* does nothing, as in react-native-web (FALSE)
  entered,           \* the PracticeScreen has been entered
  mounted,           \* the PracticeScreen is mounted
  conversationState, \* PracticeScreen state conversationState
  isRecording,       \* PracticeScreen state isRecording
  shownSession,      \* PracticeScreen state currentSession
  shownMessages,     \* PracticeScreen state messages
  connectionStatus,  \* PracticeScreen state connectionStatus
  alerts,            \* the dialogs shown and waiting to be shown, in order
  settleTimers,      \* pending timeouts of 3000 ms set by stopRecording
  resets,            \* calls of onResetProfile so far
  captures,          \* presses of the microphone that started a capture
  gesture            \* the last press of the user and what it led to

channel == <<socket, reconnectAttempts, messageQueue, listeners, readyState,
             promises, timers, wire, sent, hung, released, event>>

manager == <<currentSession, messages, audioRecording, audioSound>>
recordings == <<activeRecordings, preparedRecordings, recorderExists>>
device == <<recordings, loadedSounds, playingSounds>>

display == <<conversationState, isRecording, shownSession, shownMessages,
             connectionStatus>>
screen == <<native, entered, mounted, display, alerts, settleTimers, resets, captures,
            gesture>>

sessions == <<manager, calls, last, invoked, device, parallel, snapshot,
              screen>>

\* What no step of either audio service touches.
beyond == <<parallel, snapshot, channel, screen>>

\* What no step of the Session Manager touches by itself.
outside == <<beyond, currentSound>>

\* What no step of the Session Manager or of its caller touches.
apart == <<parallel, snapshot, channel, currentSound>>

vars == <<sessions, channel, currentSound>>

----------------------------------------------------------------------------
(* Invocation records                                                      *)

\* op      the method: "none", "start", "send", "startRec", "stopRec", "end"
\* by      the handler of the PracticeScreen that awaits the invocation, ""
\*         for an invocation of another caller
\* pc      the await the invocation is suspended at ("idle": a free slot)
\* uri     the audioUri argument of sendAudioMessage
\* data    the JSON body of the answer the invocation received; of an
\*         "end" invocation, the body of the request it sent
\* h       the audio object the awaited device operation acts on
\* io      the outcome of the last awaited operation
Idle ==
  [op |-> "none", by |-> "", pc |-> "idle", uri |-> Undefined, data |-> Null,
   h |-> NoHandle, io |-> ""]

\* The settlement of a promise: result is "resolved" or "rejected", error the
\* error it rejected with, data and uri the values the invocation worked on.
NoResult ==
  [op |-> "none", result |-> "", io |-> "", error |-> "", data |-> Null,
   uri |-> Undefined]

Resolved(r) ==
  [op |-> r.op, result |-> "resolved", io |-> r.io, error |-> "",
   data |-> r.data, uri |-> r.uri]
Rejected(r, e) ==
  [op |-> r.op, result |-> "rejected", io |-> r.io, error |-> e,
   data |-> r.data, uri |-> r.uri]

\* The session object startConversation stores.
NewSession(data) ==
  [conversationId |-> data.conversation_id, status |-> "active",
   agentId |-> data.agent_id]

\* Mutant: the guard is missing.
SendGuardMissing == FALSE

\* The guard of sendAudioMessage: no session, so the call throws at once.
SendWithoutSession == currentSession = Null

\* Mutant: the guard is missing.
StopGuardMissing == FALSE

\* The guard of stopRecording: no recording is held.
StopWithoutRecording == audioRecording = NoHandle

\* Mutant: the guard is missing.
EndGuardMissing == FALSE

\* The guard of endConversation: no session, so the call returns at once.
EndWithoutSession == currentSession = Null

\* The body of the end request (lines 377-380): the id is read from the
\* session the service has when endConversation is called.
EndRequest ==
  [action |-> "end_conversation",
   conversationId |-> IF currentSession = Null THEN Undefined
                      ELSE currentSession.conversationId]

\* getMessages(): a copy of the history.
getMessages == [i \in 1..Len(messages) |-> messages[i]]

----------------------------------------------------------------------------
(* PracticeScreen: what its handlers do after an await                     *)
(* (src/unnamed/part_003, lines 724-870)                                   *)
(*                                                                         *)
(* A handler of the screen that awaits a method of the service goes on in  *)
(* the microtask that follows the settlement, before any other event is    *)
(* handled: the settlement and the rest of the handler up to its next      *)
(* await are one step.  The state setters of an unmounted component do     *)
(* nothing.                                                                *)

\* Mutant: the setters act on an unmounted screen too.
DisplayUnmounted(cs, rec, sess, msgs, conn) ==
  /\ conversationState' = cs
  /\ isRecording' = rec
  /\ shownSession' = sess
  /\ shownMessages' = msgs
  /\ connectionStatus' = conn

\* The state setters called in one segment of a handler, given the values
\* the five states have after it.
Display(cs, rec, sess, msgs, conn) ==
  /\ conversationState' = IF mounted THEN cs ELSE conversationState
  /\ isRecording' = IF mounted THEN rec ELSE isRecording
  /\ shownSession' = IF mounted THEN sess ELSE shownSession
  /\ shownMessages' = IF mounted THEN msgs ELSE shownMessages
  /\ connectionStatus' = IF mounted THEN conn ELSE connectionStatus

\* setConversationState(cs) alone.
SetConversationState(cs) ==
  Display(cs, isRecording, shownSession, shownMessages, connectionStatus)

\* Alert.alert(title, ...): the dialog joins those shown on a native build.
Alert(title) == alerts' = IF native THEN Append(alerts, title) ELSE alerts

\* The invocation is over and its slot free again.
Over(c, res) ==
  /\ calls' = [calls EXCEPT ![c] = Idle]
  /\ last' = res

\* Mutant: the catch block leaves the status as it is.
StatusKeptOnFailure(res) ==
  IF res.result = "resolved" THEN "connected" ELSE connectionStatus

\* The connection status initializeConversation sets (lines 766 and 778).
StatusAfterStart(res) ==
  IF res.result = "resolved" THEN "connected" ELSE "disconnected"

\* initializeConversation after await startConversation (lines 765-785).
ResumeInitialize(c, res) ==
  /\ Over(c, res)
  /\ IF res.result = "resolved"
     THEN /\ Display("idle", isRecording, NewSession(res.data), shownMessages,
                     StatusAfterStart(res))
          /\ Alert("Session Started")
     ELSE /\ Display("idle", isRecording, shownSession, shownMessages,
                     StatusAfterStart(res))
          /\ Alert("Connection Error")
  /\ UNCHANGED <<native, entered, mounted, settleTimers, resets, captures, gesture>>

\* startRecording after await startRecording() (lines 795-811).
ResumeStartRecording(c, res) ==
  /\ Over(c, res)
  /\ IF res.result = "resolved"
     THEN /\ Display("listening", TRUE, shownSession, shownMessages,
                     connectionStatus)
          /\ UNCHANGED alerts
     ELSE /\ Alert("Recording Error")
          /\ UNCHANGED display
  /\ UNCHANGED <<native, entered, mounted, settleTimers, resets, captures, gesture>>

\* The catch block of stopRecording (lines 843-847).
StopRecordingCatch ==
  /\ SetConversationState("idle")
  /\ Alert("Processing Error")
  /\ UNCHANGED <<native, entered, mounted, settleTimers, resets, captures, gesture>>

\* stopRecording after await stopRecording() (lines 828-829): the URI is
\* handed to sendAudioMessage, which throws at once without a session.
ResumeStopRecording(c, res) ==
  LET send == [Idle EXCEPT !.op = "send", !.by = "stopRecording",
                           !.uri = res.uri]
  IN IF res.result = "rejected"
     THEN Over(c, res) /\ StopRecordingCatch
     ELSE IF SendWithoutSession'
     THEN Over(c, Rejected(send, "NoActiveSession")) /\ StopRecordingCatch
     ELSE /\ calls' = [calls EXCEPT ![c] = [send EXCEPT !.pc = "fetchAudio"]]
          /\ last' = res
          /\ UNCHANGED screen

\* stopRecording after await sendAudioMessage(audioUri) (lines 829-841).
ResumeSendAudioMessage(c, res) ==
  /\ Over(c, res)
  /\ IF res.result = "rejected"
     THEN StopRecordingCatch
     ELSE /\ Display("speaking", isRecording, shownSession, getMessages',
                     connectionStatus)
          /\ settleTimers' = settleTimers + 1
          /\ UNCHANGED <<native, entered, mounted, alerts, resets, captures, gesture>>

\* The 'End Session' button after await endConversation() (lines 861-865).
\* onResetProfile() is handleResetProfile of Home (src/unnamed/part_000,
\* lines 67-75), which leaves the practice state: the screen is unmounted
\* and its cleanup calls endConversation() once more, awaited by nobody.
LeaveScreen(c, res) ==
  /\ Display("idle", isRecording, Null, <<>>, "disconnected")
  /\ resets' = resets + 1
  /\ mounted' = FALSE
  /\ last' = res
  /\ calls' = [calls EXCEPT ![c] =
                 IF EndWithoutSession' \/ ~mounted THEN Idle
                 ELSE [Idle EXCEPT !.op = "end", !.by = "unmount",
                                   !.pc = "fetchEnd", !.data = EndRequest']]

ResumeEndSession(c, res) ==
  /\ LeaveScreen(c, res)
  /\ UNCHANGED <<native, entered, alerts, settleTimers, captures, gesture>>

\* What follows the settlement of the invocation in slot c.
Resume(c, res) ==
  CASE calls[c].by = "initializeConversation" -> ResumeInitialize(c, res)
    [] calls[c].by = "startRecording" -> ResumeStartRecording(c, res)
    [] calls[c].by = "stopRecording" /\ res.op = "stopRec" ->
         ResumeStopRecording(c, res)
    [] calls[c].by = "stopRecording" /\ res.op = "send" ->
         ResumeSendAudioMessage(c, res)
    [] calls[c].by = "endSession" -> ResumeEndSession(c, res)
    [] OTHER -> Over(c, res) /\ UNCHANGED screen

----------------------------------------------------------------------------
(* Steps of an invocation                                                  *)

\* A new invocation takes the first free slot.
Free(c) ==
  /\ calls[c] = Idle
  /\ \A d \in Slots : d < c => calls[d] # Idle
  /\ Cardinality({d \in Slots : calls[d] # Idle}) < parallel
  /\ invoked < MaxInvocations

\* Slot c goes on to its next await.
Set(c, r) ==
  /\ calls' = [calls EXCEPT ![c] = r]
  /\ last' = last
  /\ UNCHANGED outside

\* The invocation in slot c settles, and the caller that awaits it goes on.
Settle(c, res) ==
  /\ Resume(c, res)
  /\ UNCHANGED apart

----------------------------------------------------------------------------
(* startConversation                                                       *)

\* Mutant: the response.ok check is missing.
StartStatusUnchecked(outcome) == outcome \in {"ok", "notok"}

\* Whether the start exchange passed the response.ok check and the json()
\* parse of startConversation.
StartResponseOk(outcome) == outcome = "ok"

\* Mutant: the history is not reset.
MessagesKeptAfterStart(msgs) == msgs

\* The history after a successful start.
MessagesAfterStart(msgs) == <<>>

\* The call up to the first await: the start request is issued.
StartConversationCall(c) ==
  /\ Free(c)
  /\ invoked' = invoked + 1
  /\ Set(c, [Idle EXCEPT !.op = "start", !.pc = "fetchStart"])
  /\ UNCHANGED <<manager, device>>

\* The start request completes: fetch, the response.ok check and json().
StartConversationDone(c) ==
  /\ calls[c].op = "start" /\ calls[c].pc = "fetchStart"
  /\ \E outcome \in HttpOutcomes :
       LET r == [calls[c] EXCEPT !.io = outcome] IN
       IF StartResponseOk(outcome)
       THEN \E data \in StartData :
              /\ currentSession' = NewSession(data)
              /\ messages' = MessagesAfterStart(messages)
              /\ Settle(c, Resolved([r EXCEPT !.data = data]))
       ELSE /\ Settle(c, Rejected(r, "RemoteCallFailed"))
            /\ UNCHANGED <<currentSession, messages>>
  /\ UNCHANGED <<audioRecording, audioSound, device, invoked>>

----------------------------------------------------------------------------
(* sendAudioMessage and playAgentResponse                                  *)

\* Mutant: the transcript is stored as returned, without the placeholder.
UserMessageNoPlaceholder(uri, data) ==
  [type |-> "user", content |-> data.user_transcript, audioUrl |-> uri]

\* The user turn and the agent turn pushed for one answer.
UserMessage(uri, data) ==
  [type |-> "user",
   content |-> IF Truthy(data.user_transcript) THEN data.user_transcript
               ELSE Placeholder,
   audioUrl |-> uri]

AgentMessage(data) ==
  [type |-> "agent",
   content |-> IF Truthy(data.agent_response) THEN data.agent_response ELSE "",
   audioUrl |-> data.agent_audio_url]

\* Mutant: the agent turn is pushed before the user turn.
PushTurnAgentFirst(msgs, uri, data) ==
  Append(Append(msgs, AgentMessage(data)), UserMessage(uri, data))

\* The two pushes of sendAudioMessage, which no await separates.
PushTurn(msgs, uri, data) ==
  Append(Append(msgs, UserMessage(uri, data)), AgentMessage(data))

\* Mutant: the response.ok check is missing.
SendStatusUnchecked(outcome) == outcome \in {"ok", "notok"}

\* Whether the send_audio exchange passed the response.ok check and the
\* json() parse of sendAudioMessage.
SendResponseOk(outcome) == outcome = "ok"

\* The history after a failed sendAudioMessage: the catch block only logs
\* and rethrows.
MessagesAfterSendError(msgs) == msgs

\* The sound ids no object carries at the moment; a new object takes the
\* first of them.
FreeSounds ==
  SoundIds \ (loadedSounds \cup {audioSound, currentSound}
              \cup {calls[c].h : c \in {d \in Slots : calls[d].pc \in
                       {"playUnload", "playStart", "endUnloadSound",
                        "stopAsync", "unloadAsync"}}})
NewSounds == {s \in FreeSounds : \A t \in FreeSounds : s <= t}

\* The call up to the first await: the guard, then fetch(audioUri).
SendAudioMessageCall(c) ==
  /\ Free(c)
  /\ invoked' = invoked + 1
  /\ \E uri \in AudioUris :
       LET r == [Idle EXCEPT !.op = "send", !.uri = uri] IN
       IF SendWithoutSession
       THEN Settle(c, Rejected(r, "NoActiveSession"))
       ELSE Set(c, [r EXCEPT !.pc = "fetchAudio"])
  /\ UNCHANGED <<manager, device>>

\* fetch(audioUri) and response.blob() complete.  The request object is then
\* built: this.currentSession.conversationId is read (a TypeError when the
\* session has been cleared meanwhile) before blobToBase64 is awaited.
SendFetchAudioDone(c) ==
  /\ calls[c].op = "send" /\ calls[c].pc = "fetchAudio"
  /\ \E outcome \in IoOutcomes :
       LET r == [calls[c] EXCEPT !.io = outcome] IN
       IF outcome # "ok"
       THEN /\ Settle(c, Rejected(r, "AudioReadFailed"))
            /\ messages' = MessagesAfterSendError(messages)
       ELSE IF currentSession = Null
       THEN /\ Settle(c, Rejected(r, "TypeError"))
            /\ messages' = MessagesAfterSendError(messages)
       ELSE /\ Set(c, [r EXCEPT !.pc = "base64"])
            /\ UNCHANGED messages
  /\ UNCHANGED <<currentSession, audioRecording, audioSound, device, invoked>>

\* blobToBase64 completes; on success the send_audio request is issued.
SendBase64Done(c) ==
  /\ calls[c].op = "send" /\ calls[c].pc = "base64"
  /\ \E outcome \in IoOutcomes :
       LET r == [calls[c] EXCEPT !.io = outcome] IN
       IF outcome # "ok"
       THEN /\ Settle(c, Rejected(r, "EncodeFailed"))
            /\ messages' = MessagesAfterSendError(messages)
       ELSE /\ Set(c, [r EXCEPT !.pc = "sendRemote"])
            /\ UNCHANGED messages
  /\ UNCHANGED <<currentSession, audioRecording, audioSound, device, invoked>>

\* The first await of playAgentResponse, entered with the reply's audio url:
\* the previous sound is unloaded first when one is held.
PlayEntry(r) ==
  IF audioSound # NoHandle
  THEN [r EXCEPT !.pc = "playUnload", !.h = audioSound]
  ELSE [r EXCEPT !.pc = "playCreate"]

\* The send_audio request completes: fetch, the response.ok check and json();
\* on success both messages are pushed and the reply audio, if any, is played.
SendRemoteDone(c) ==
  /\ calls[c].op = "send" /\ calls[c].pc = "sendRemote"
  /\ \E outcome \in HttpOutcomes :
       LET r == [calls[c] EXCEPT !.io = outcome] IN
       IF SendResponseOk(outcome)
       THEN \E data \in SendData :
              /\ messages' = PushTurn(messages, calls[c].uri, data)
              /\ IF Truthy(data.agent_audio_url)
                 THEN Set(c, PlayEntry([r EXCEPT !.data = data]))
                 ELSE Settle(c, Resolved([r EXCEPT !.data = data]))
       ELSE /\ Settle(c, Rejected(r, "RemoteCallFailed"))
            /\ messages' = MessagesAfterSendError(messages)
  /\ UNCHANGED <<currentSession, audioSound, audioRecording, device, invoked>>

\* playAgentResponse: unloadAsync of the previous sound completes.  A failure
\* is caught and logged, and sendAudioMessage returns the agent message.
PlayUnloadDone(c) ==
  /\ calls[c].op = "send" /\ calls[c].pc = "playUnload"
  /\ UNCHANGED <<manager, recordings, invoked>>
  /\ \E outcome \in IoOutcomes :
       LET r == [calls[c] EXCEPT !.io = outcome] IN
       IF outcome = "ok"
       THEN /\ loadedSounds' = loadedSounds \ {calls[c].h}
            /\ playingSounds' = playingSounds \ {calls[c].h}
            /\ Set(c, [r EXCEPT !.pc = "playCreate", !.h = NoHandle])
       ELSE /\ Settle(c, Resolved(r))
            /\ UNCHANGED <<loadedSounds, playingSounds>>

\* playAgentResponse: Audio.Sound.createAsync completes; the new sound is
\* stored in this.audioSound and playAsync is called on it.
PlayCreateDone(c) ==
  /\ calls[c].op = "send" /\ calls[c].pc = "playCreate"
  /\ UNCHANGED <<currentSession, messages, audioRecording, recordings,
                 playingSounds, invoked>>
  /\ \E outcome \in IoOutcomes :
       LET r == [calls[c] EXCEPT !.io = outcome] IN
       IF outcome = "ok"
       THEN \E s \in NewSounds :
              /\ loadedSounds' = loadedSounds \cup {s}
              /\ audioSound' = s
              /\ Set(c, [r EXCEPT !.pc = "playStart", !.h = s])
       ELSE /\ Settle(c, Resolved(r))
            /\ UNCHANGED <<loadedSounds, audioSound>>

\* playAgentResponse: playAsync completes; it cannot succeed on a sound that
\* has been unloaded meanwhile.
PlayStartDone(c) ==
  /\ calls[c].op = "send" /\ calls[c].pc = "playStart"
  /\ UNCHANGED <<manager, recordings, loadedSounds, invoked>>
  /\ \E outcome \in IoOutcomes :
       LET r == [calls[c] EXCEPT !.io = outcome] IN
       /\ outcome = "ok" => calls[c].h \in loadedSounds
       /\ playingSounds' = IF outcome = "ok" THEN playingSounds \cup {calls[c].h}
                           ELSE playingSounds
       /\ Settle(c, Resolved(r))

\* A sound plays to its end.
PlaybackFinished ==
  /\ \E s \in playingSounds : playingSounds' = playingSounds \ {s}
  /\ UNCHANGED <<manager, calls, last, invoked, recordings, loadedSounds,
                 outside>>

----------------------------------------------------------------------------
(* startRecording and stopRecording                                        *)

\* The recording ids no object carries at the moment; a new object takes
\* the first of them.
FreeRecordings ==
  RecordingIds \ (activeRecordings \cup preparedRecordings
                  \cup {audioRecording}
                  \cup {calls[c].h : c \in {d \in Slots : calls[d].pc \in
                           {"prepare", "startAsync", "stopUnload",
                            "endStopRecording"}}})
NewRecordings == {r \in FreeRecordings : \A t \in FreeRecordings : r <= t}

\* expo-av lets one Recording object be prepared at a time:
\* prepareToRecordAsync throws when it is called while the recorder exists.
RecorderBusy == recorderExists

\* The call up to the first await: Audio.requestPermissionsAsync().
StartRecordingCall(c) ==
  /\ Free(c)
  /\ invoked' = invoked + 1
  /\ Set(c, [Idle EXCEPT !.op = "startRec", !.pc = "permissions"])
  /\ UNCHANGED <<manager, device>>

\* The permission request completes; Audio.setAudioModeAsync is called.
PermissionsDone(c) ==
  /\ calls[c].op = "startRec" /\ calls[c].pc = "permissions"
  /\ \E outcome \in {"granted", "denied", "fail"} :
       LET r == [calls[c] EXCEPT !.io = outcome] IN
       IF outcome = "granted" THEN Set(c, [r EXCEPT !.pc = "audioMode"])
       ELSE IF outcome = "denied" THEN Settle(c, Rejected(r, "PermissionDenied"))
       ELSE Settle(c, Rejected(r, "DeviceError"))
  /\ UNCHANGED <<manager, device, invoked>>

\* Mutant: the new Recording is stored in this.audioRecording as soon as it
\* is constructed.
RecordingStoredAtOnce(held, rec) == rec

\* this.audioRecording while the new Recording is being prepared and started:
\* the new object is a local until startAsync has succeeded.
HeldWhilePreparing(held, rec) == held

\* Audio.setAudioModeAsync completes; a Recording object is then constructed
\* and prepareToRecordAsync is called on it, which throws at once when the
\* recorder exists.
AudioModeDone(c) ==
  /\ calls[c].op = "startRec" /\ calls[c].pc = "audioMode"
  /\ \E outcome \in IoOutcomes :
       LET r == [calls[c] EXCEPT !.io = outcome] IN
       IF outcome # "ok"
       THEN /\ Settle(c, Rejected(r, "DeviceError"))
            /\ UNCHANGED audioRecording
       ELSE \E rec \in NewRecordings :
              /\ audioRecording' = HeldWhilePreparing(audioRecording, rec)
              /\ IF RecorderBusy
                 THEN Settle(c, Rejected([r EXCEPT !.io = "busy"], "DeviceError"))
                 ELSE Set(c, [r EXCEPT !.pc = "prepare", !.h = rec])
  /\ UNCHANGED <<currentSession, messages, audioSound, device, invoked>>

\* prepareToRecordAsync completes: on success the object holds the recorder;
\* startAsync is called.
PrepareDone(c) ==
  /\ calls[c].op = "startRec" /\ calls[c].pc = "prepare"
  /\ \E outcome \in IoOutcomes :
       LET r == [calls[c] EXCEPT !.io = outcome] IN
       IF outcome = "ok"
       THEN /\ preparedRecordings' = preparedRecordings \cup {calls[c].h}
            /\ recorderExists' = TRUE
            /\ Set(c, [r EXCEPT !.pc = "startAsync"])
       ELSE /\ Settle(c, Rejected(r, "DeviceError"))
            /\ UNCHANGED <<preparedRecordings, recorderExists>>
  /\ UNCHANGED <<manager, activeRecordings, loadedSounds, playingSounds,
                 invoked>>

\* startAsync completes: the device records and the handle is stored.
StartAsyncDone(c) ==
  /\ calls[c].op = "startRec" /\ calls[c].pc = "startAsync"
  /\ \E outcome \in IoOutcomes :
       LET r == [calls[c] EXCEPT !.io = outcome] IN
       /\ outcome = "ok" => calls[c].h \in preparedRecordings
       /\ IF outcome = "ok"
          THEN /\ activeRecordings' = activeRecordings \cup {calls[c].h}
               /\ audioRecording' = calls[c].h
               /\ Settle(c, Resolved(r))
          ELSE /\ Settle(c, Rejected(r, "DeviceError"))
               /\ UNCHANGED <<activeRecordings, audioRecording>>
  /\ UNCHANGED <<currentSession, messages, audioSound, preparedRecordings,
                 recorderExists, loadedSounds, playingSounds, invoked>>

\* The call up to the first await: the guard, then stopAndUnloadAsync().
StopRecordingCall(c) ==
  /\ Free(c)
  /\ invoked' = invoked + 1
  /\ LET r == [Idle EXCEPT !.op = "stopRec"] IN
     IF StopWithoutRecording
     THEN Settle(c, Rejected(r, "NoActiveRecording"))
     ELSE Set(c, [r EXCEPT !.pc = "stopUnload", !.h = audioRecording])
  /\ UNCHANGED <<manager, device>>

\* How stopAndUnloadAsync on recording h can end.  The object must be
\* prepared for it to succeed ("ok", or "nouri" when getURI() then gives
\* null).  "fail": the call rejects, and when the object was prepared expo-av
\* has released the recorder all the same.  "unloadfail": the recording was
\* stopped but unloading the recorder failed.
StopOutcomes(h) ==
  IF h \in preparedRecordings THEN {"ok", "nouri", "fail", "unloadfail"}
  ELSE {"fail"}

\* The device after stopAndUnloadAsync on recording h ended with outcome.
StopAndUnload(h, outcome) ==
  /\ activeRecordings' = activeRecordings \ {h}
  /\ preparedRecordings' =
       IF outcome = "unloadfail" THEN preparedRecordings
       ELSE preparedRecordings \ {h}
  /\ recorderExists' =
       IF outcome = "unloadfail" \/ h \notin preparedRecordings
       THEN recorderExists ELSE FALSE

\* stopAndUnloadAsync completes.  On success getURI() is called on
\* this.audioRecording as it is now (a TypeError when it has been cleared
\* meanwhile), the handle is cleared, and a null URI is an error.
StopUnloadDone(c) ==
  /\ calls[c].op = "stopRec" /\ calls[c].pc = "stopUnload"
  /\ UNCHANGED <<currentSession, messages, audioSound, loadedSounds,
                 playingSounds, invoked>>
  /\ \E outcome \in StopOutcomes(calls[c].h) :
       LET r == [calls[c] EXCEPT !.io = outcome] IN
       /\ StopAndUnload(calls[c].h, outcome)
       /\ IF outcome \in {"fail", "unloadfail"}
          THEN /\ Settle(c, Rejected(r, "DeviceError"))
               /\ UNCHANGED audioRecording
          ELSE IF audioRecording = NoHandle
          THEN /\ Settle(c, Rejected(r, "TypeError"))
               /\ UNCHANGED audioRecording
          ELSE /\ audioRecording' = NoHandle
               /\ IF outcome = "nouri"
                  THEN Settle(c, Rejected(r, "NoRecordingUri"))
                  ELSE \E uri \in AudioUris :
                         Settle(c, Resolved([r EXCEPT !.uri = uri]))

----------------------------------------------------------------------------
(* endConversation                                                         *)

\* Mutant: the catch block rethrows.
EndCatchRethrows(r) == Rejected(r, "RemoteCallFailed")

\* The catch block of endConversation: the error is logged and the call
\* returns normally.
EndCatch(r) == Resolved(r)

\* The call up to the first await: the guard, then the end request.
EndConversationCall(c) ==
  /\ Free(c)
  /\ invoked' = invoked + 1
  /\ LET r == [Idle EXCEPT !.op = "end"] IN
     IF EndWithoutSession
     THEN Settle(c, Resolved(r))
     ELSE Set(c, [r EXCEPT !.pc = "fetchEnd", !.data = EndRequest])
  /\ UNCHANGED <<manager, device>>

\* The release of the sound, the last step of the cleanup: the call goes on
\* to await unloadAsync when a sound is held and returns otherwise.
EndReleaseSound(c, r) ==
  IF audioSound # NoHandle
  THEN Set(c, [r EXCEPT !.pc = "endUnloadSound", !.h = audioSound])
  ELSE Settle(c, Resolved(r))

\* The end request completes.  The status of the response is not looked at;
\* only a rejected fetch skips the rest of the try block.
EndFetchDone(c) ==
  /\ calls[c].op = "end" /\ calls[c].pc = "fetchEnd"
  /\ UNCHANGED <<messages, audioRecording, audioSound, device, invoked>>
  /\ \E outcome \in {"ok", "notok", "reject"} :
       LET r == [calls[c] EXCEPT !.io = outcome] IN
       IF outcome = "reject"
       THEN /\ UNCHANGED currentSession
            /\ Settle(c, EndCatch(r))
       ELSE /\ currentSession' = Null
            /\ IF audioRecording # NoHandle
               THEN Set(c, [r EXCEPT !.pc = "endStopRecording", !.h = audioRecording])
               ELSE EndReleaseSound(c, r)

\* stopAndUnloadAsync of the held recording completes.
EndStopRecordingDone(c) ==
  /\ calls[c].op = "end" /\ calls[c].pc = "endStopRecording"
  /\ UNCHANGED <<currentSession, messages, audioSound, loadedSounds,
                 playingSounds, invoked>>
  /\ \E outcome \in StopOutcomes(calls[c].h) \ {"nouri"} :
       LET r == [calls[c] EXCEPT !.io = outcome, !.h = NoHandle] IN
       /\ StopAndUnload(calls[c].h, outcome)
       /\ IF outcome = "ok"
          THEN /\ audioRecording' = NoHandle
               /\ EndReleaseSound(c, r)
          ELSE /\ Settle(c, EndCatch(r))
               /\ UNCHANGED audioRecording

\* unloadAsync of the held sound completes.
EndUnloadSoundDone(c) ==
  /\ calls[c].op = "end" /\ calls[c].pc = "endUnloadSound"
  /\ UNCHANGED <<currentSession, messages, audioRecording, recordings,
                 invoked>>
  /\ \E outcome \in IoOutcomes :
       LET r == [calls[c] EXCEPT !.io = outcome] IN
       IF outcome = "ok"
       THEN /\ loadedSounds' = loadedSounds \ {calls[c].h}
            /\ playingSounds' = playingSounds \ {calls[c].h}
            /\ audioSound' = NoHandle
            /\ Settle(c, Resolved(r))
       ELSE /\ Settle(c, EndCatch(r))
            /\ UNCHANGED <<loadedSounds, playingSounds, audioSound>>


----------------------------------------------------------------------------
(* A caller that keeps and changes the array getMessages() returned        *)

\* Mutant: getMessages returns this.messages itself.
SameArray(items) == [alias |-> TRUE, items |-> items]

\* The array object getMessages() returns: the spread builds a new array,
\* which is not this.messages (alias) and holds the elements of the copy.
NewArray(items) == [alias |-> FALSE, items |-> items]

\* The elements of the caller's array as the caller reads them now: those of
\* this.messages when the two are one object.
SnapshotItems ==
  IF snapshot = Null THEN <<>>
  ELSE IF snapshot.alias THEN messages ELSE snapshot.items

\* A message the caller makes up.
Forged == [type |-> "agent", content |-> "forged", audioUrl |-> Undefined]

Reverse(q) == [i \in 1..Len(q) |-> q[Len(q) + 1 - i]]

\* What push, pop, shift and reverse make of an array.
Mutations(q) ==
  {Append(q, Forged) : x \in {y \in {1} : Len(q) < MaxSnapshotLen}}
    \cup {SubSeq(q, 1, Len(q) - 1) : x \in {y \in {1} : Len(q) > 0}}
    \cup {SubSeq(q, 2, Len(q)) : x \in {y \in {1} : Len(q) > 0}}
    \cup {Reverse(q)}

\* The caller calls getMessages() and keeps the result.
GetMessages ==
  /\ snapshot' = NewArray(getMessages)
  /\ UNCHANGED <<manager, calls, last, invoked, device, parallel, channel,
                 currentSound, screen>>

\* The caller changes the array it holds.  An array is changed in place:
\* were it this.messages, the history would change with it.
MutateSnapshot ==
  /\ snapshot # Null
  /\ \E q \in Mutations(SnapshotItems) :
       /\ snapshot' = [snapshot EXCEPT !.items = q]
       /\ messages' = IF snapshot.alias THEN q ELSE messages
  /\ UNCHANGED <<currentSession, audioRecording, audioSound, calls, last,
                 invoked, device, parallel, channel, currentSound, screen>>

----------------------------------------------------------------------------
(* WebSocketService: the reconnecting channel (lines 7-152)                *)
(*                                                                         *)
(* Every WebSocket object the service constructs is a transport with its   *)
(* own readyState and its own four handlers, which stay attached for the   *)
(* life of the object and act on the fields of the one service.  A handler *)
(* and a method run to their end without interleaving.  A closed object    *)
(* delivers no further event, so its id is used again.                     *)

\* this.maxReconnectAttempts and this.reconnectDelay.
maxReconnectAttempts == 5
reconnectDelay == 1000

TransportIds == 1..MaxTransports
\* this.socket when it is null.
NoSocket == 0

MessageTypes == {"a", "b"}
\* Listener functions: "boom" throws when it is invoked, "f" returns.
ListenerIds == {"f", "boom"}
Throws(l) == l = "boom"

\* Inbound frames: text that is a JSON object, with a type or without one,
\* and text that is not JSON.
Frames ==
  [json : {TRUE}, type : MessageTypes \cup {Undefined}]
    \cup {[json |-> FALSE, type |-> Undefined]}

\* What ran last, for the steps whose outcome is observed: op is
\* "disconnect" (t the socket it was called with), "error" (t the transport
\* that failed) or "message" (t the transport the frame came from), and
\* "other" for every other method and handler.  For an inbound frame, called
\* lists the listener calls made, in order, and thrown tells whether an
\* exception left the handler.
Event(op, t) ==
  [op |-> op, t |-> t, frame |-> [json |-> FALSE, type |-> Undefined],
   called |-> <<>>, thrown |-> FALSE]

\* The ids of the objects that are closed or were never constructed; a new
\* object takes the first of them.
FreeTransports == {t \in TransportIds : readyState[t] \in {"NONE", "CLOSED"}}
NewTransports == {t \in FreeTransports : \A u \in FreeTransports : t <= u}

\* isConnected().
isConnected == socket # NoSocket /\ readyState[socket] = "OPEN"

\* getConnectionState().
getConnectionState ==
  IF socket = NoSocket THEN "disconnected"
  ELSE CASE readyState[socket] = "CONNECTING" -> "connecting"
         [] readyState[socket] = "OPEN" -> "connected"
         [] readyState[socket] = "CLOSING" -> "closing"
         [] readyState[socket] = "CLOSED" -> "disconnected"
         [] OTHER -> "unknown"

\* The frame socket.send is given for message m: the message with a
\* timestamp, as JSON text, handed to transport t.
Frame(t, m) == [to |-> t, msg |-> m, timestamp |-> TRUE]

\* send(message), by its effect on the queue and the wire: the frame goes to
\* this.socket when it is open, and the message is queued otherwise.
SendEffect(q, w, sock, rs, m) ==
  IF sock # NoSocket /\ rs[sock] = "OPEN"
  THEN [queue |-> q, wire |-> Append(w, Frame(sock, m))]
  ELSE [queue |-> Append(q, m), wire |-> w]

\* flushMessageQueue(): while the queue is not empty, shift a message and
\* send it.  n counts the iterations left before the loop is back in the
\* state it started in: send either transmits every message, or queues every
\* message again, and then the loop never ends (diverged).
RECURSIVE FlushLoop(_, _, _, _, _)
FlushLoop(q, w, sock, rs, n) ==
  IF q = <<>> THEN [queue |-> q, wire |-> w, diverged |-> FALSE]
  ELSE IF n = 0 THEN [queue |-> q, wire |-> w, diverged |-> TRUE]
  ELSE LET e == SendEffect(Tail(q), w, sock, rs, Head(q))
       IN FlushLoop(e.queue, e.wire, sock, rs, n - 1)

flushMessageQueue(sock, rs) ==
  FlushLoop(messageQueue, wire, sock, rs, Len(messageQueue))

\* connect(url) as far as it runs at once: the object is constructed and
\* stored, and its handlers are attached.
NewSocket(t) ==
  /\ socket' = t
  /\ readyState' = [readyState EXCEPT ![t] = "CONNECTING"]
  /\ promises' = [promises EXCEPT ![t] = "pending"]

\* The caller calls connect(url).  The constructor may throw (a malformed
\* url), which rejects the promise at once.
Connect ==
  /\ ~hung
  /\ \E t \in NewTransports, constructed \in BOOLEAN :
       IF constructed
       THEN NewSocket(t)
       ELSE UNCHANGED <<socket, readyState, promises>>
  /\ event' = Event("other", NoSocket)
  /\ released' = FALSE
  /\ UNCHANGED <<reconnectAttempts, messageQueue, listeners, timers, wire,
                 sent, hung, sessions, currentSound>>

\* settle a promise: only a pending promise changes.
SettlePromise(t, how) ==
  [promises EXCEPT ![t] = IF @ = "pending" THEN how ELSE @]

\* onopen, after the flush: resolve() is reached when the flush returned.
ResolveAfterFlush(t, flushed) ==
  IF flushed.diverged THEN promises ELSE SettlePromise(t, "resolved")

\* Transport t reports open (onopen): the counter is reset, the queue is
\* flushed, and the promise is resolved.
TransportOpens(t) ==
  /\ ~hung
  /\ readyState[t] = "CONNECTING"
  /\ readyState' = [readyState EXCEPT ![t] = "OPEN"]
  /\ reconnectAttempts' = 0
  /\ LET flushed == flushMessageQueue(socket, readyState') IN
       /\ messageQueue' = flushed.queue
       /\ wire' = flushed.wire
       /\ hung' = flushed.diverged
       /\ promises' = ResolveAfterFlush(t, flushed)
  /\ event' = Event("other", NoSocket)
  /\ UNCHANGED <<socket, listeners, timers, sent, released, sessions, currentSound>>

\* Mutant: the delay does not grow with the attempts.
FlatDelay(n) == reconnectDelay

\* The delay of the timer attemptReconnect sets, n being the counter after
\* its increment.
ReconnectDelayOf(n) == reconnectDelay * n

\* The guard of attemptReconnect.
MayReconnect == reconnectAttempts < maxReconnectAttempts

\* onclose of transport t: this.socket is cleared, whichever object it
\* holds, and attemptReconnect(url) counts the attempt and sets the timer.
OnClose(t) ==
  /\ readyState' = [readyState EXCEPT ![t] = "CLOSED"]
  /\ socket' = NoSocket
  /\ IF MayReconnect
     THEN /\ Len(timers) < MaxTimers
          /\ reconnectAttempts' = reconnectAttempts + 1
          /\ timers' = Append(timers, ReconnectDelayOf(reconnectAttempts'))
     ELSE UNCHANGED <<reconnectAttempts, timers>>

\* Transport t reports that it closed (onclose).
TransportCloses(t) ==
  /\ ~hung
  /\ readyState[t] \in {"OPEN", "CLOSING"}
  /\ OnClose(t)
  /\ event' = Event("other", NoSocket)
  /\ UNCHANGED <<messageQueue, listeners, promises, wire, sent, hung,
                 released, sessions, currentSound>>

\* Transport t fails: it reports an error (onerror rejects the promise)
\* and then that it closed (onclose).
TransportFails(t) ==
  /\ ~hung
  /\ readyState[t] \in {"CONNECTING", "OPEN", "CLOSING"}
  /\ promises' = SettlePromise(t, "rejected")
  /\ OnClose(t)
  /\ event' = Event("error", t)
  /\ UNCHANGED <<messageQueue, listeners, wire, sent, hung, released,
                 sessions, currentSound>>

\* A reconnect timer fires: this.connect(url).catch(console.error).
TimerFires ==
  /\ ~hung
  /\ \E i \in 1..Len(timers) :
       timers' = SubSeq(timers, 1, i - 1) \o SubSeq(timers, i + 1, Len(timers))
  /\ \E t \in NewTransports :
       /\ NewSocket(t)
       /\ event' = Event("other", NoSocket)
  /\ UNCHANGED <<reconnectAttempts, messageQueue, listeners, wire, sent, hung,
                 released, sessions, currentSound>>

\* The caller calls send(message); the messages are numbered by call.
Send ==
  /\ ~hung
  /\ sent < MaxSends
  /\ sent' = sent + 1
  /\ LET e == SendEffect(messageQueue, wire, socket, readyState, sent') IN
       /\ messageQueue' = e.queue
       /\ wire' = e.wire
  /\ event' = Event("other", NoSocket)
  /\ UNCHANGED <<socket, reconnectAttempts, listeners, readyState, promises,
                 timers, hung, released, sessions, currentSound>>

\* Mutant: disconnect leaves the queue as it is.
QueueKeptAfterDisconnect == messageQueue

\* The queue after disconnect().
QueueAfterDisconnect == <<>>

\* The caller calls disconnect(): the socket, if any, is closed and
\* dropped; queue, listeners and counter are reset.
Disconnect ==
  /\ ~hung
  /\ readyState' =
       IF socket # NoSocket /\ readyState[socket] \in {"CONNECTING", "OPEN"}
       THEN [readyState EXCEPT ![socket] = "CLOSING"]
       ELSE readyState
  /\ socket' = NoSocket
  /\ messageQueue' = QueueAfterDisconnect
  /\ listeners' = [T \in MessageTypes |-> <<>>]
  /\ reconnectAttempts' = 0
  /\ released' = TRUE
  /\ event' = Event("disconnect", socket)
  /\ UNCHANGED <<promises, timers, wire, sent, hung, sessions, currentSound>>

\* on(type, listener).
On ==
  /\ ~hung
  /\ \E T \in MessageTypes, l \in ListenerIds :
       /\ Len(listeners["a"]) + Len(listeners["b"]) < MaxListeners
       /\ listeners' = [listeners EXCEPT ![T] = Append(@, l)]
       /\ event' = Event("other", NoSocket)
  /\ UNCHANGED <<socket, reconnectAttempts, messageQueue, readyState,
                 promises, timers, wire, sent, hung, released, sessions, currentSound>>

\* The list without its first occurrence of l (indexOf and splice).
RECURSIVE WithoutFirst(_, _)
WithoutFirst(ls, l) ==
  IF ls = <<>> THEN <<>>
  ELSE IF Head(ls) = l THEN Tail(ls)
  ELSE <<Head(ls)>> \o WithoutFirst(Tail(ls), l)

\* off(type, listener).
Off ==
  /\ ~hung
  /\ \E T \in MessageTypes, l \in ListenerIds :
       /\ listeners' = [listeners EXCEPT ![T] = WithoutFirst(@, l)]
       /\ event' = Event("other", NoSocket)
  /\ UNCHANGED <<socket, reconnectAttempts, messageQueue, readyState,
                 promises, timers, wire, sent, hung, released, sessions, currentSound>>

\* Mutant: a listener's exception is not caught in handleMessage.
ListenerErrorsEscape == FALSE

\* handleMessage wraps every listener call in try/catch.
ListenerErrorsCaught == TRUE

\* The forEach of handleMessage over the listeners ls: which listeners are
\* called with the message, and whether an exception leaves the loop.
RECURSIVE CallListeners(_, _)
CallListeners(ls, message) ==
  IF ls = <<>> THEN [called |-> <<>>, thrown |-> FALSE]
  ELSE IF Throws(Head(ls)) /\ ~ListenerErrorsCaught
       THEN [called |-> <<[fn |-> Head(ls), arg |-> message]>>, thrown |-> TRUE]
       ELSE LET rest == CallListeners(Tail(ls), message)
            IN [called |-> <<[fn |-> Head(ls), arg |-> message]>> \o rest.called,
                thrown |-> rest.thrown]

\* handleMessage(message): the listeners of the type, or none.
handleMessage(message) ==
  CallListeners(IF message.type \in MessageTypes
                THEN listeners[message.type] ELSE <<>>, message)

\* onmessage for a frame: JSON.parse and handleMessage inside try/catch, so
\* that nothing is thrown out of the handler.
OnMessage(t, frame) ==
  [op |-> "message", t |-> t, frame |-> frame,
   called |-> IF frame.json THEN handleMessage(frame).called ELSE <<>>,
   thrown |-> FALSE]

\* A frame arrives on transport t.
TransportMessage(t) ==
  /\ ~hung
  /\ readyState[t] \in {"OPEN", "CLOSING"}
  /\ \E frame \in Frames : event' = OnMessage(t, frame)
  /\ UNCHANGED <<socket, reconnectAttempts, messageQueue, listeners,
                 readyState, promises, timers, wire, sent, hung, released,
                 sessions, currentSound>>

\* The channel after construction.
ChannelConstructed ==
  /\ socket = NoSocket
  /\ reconnectAttempts = 0
  /\ messageQueue = <<>>
  /\ listeners = [T \in MessageTypes |-> <<>>]
  /\ readyState = [t \in TransportIds |-> "NONE"]
  /\ promises = [t \in TransportIds |-> "none"]
  /\ timers = <<>>
  /\ wire = <<>>
  /\ sent = 0
  /\ hung = FALSE
  /\ released = FALSE
  /\ event = Event("other", NoSocket)

----------------------------------------------------------------------------
(* ElevenLabsService: playAudio and stopAudio (lines 553-586)              *)
(*                                                                         *)
(* The invocations are records in calls, as above.  A sound made by        *)
(* playAudio carries a status callback that calls stopAudio() when the     *)
(* sound has played to its end; nobody awaits that call (op "onFinish").   *)

\* Slot c goes on to its next await.
Await(c, r) ==
  /\ calls' = [calls EXCEPT ![c] = r]
  /\ last' = last
  /\ UNCHANGED beyond

\* The invocation in slot c settles.
Return(c, res) ==
  /\ calls' = [calls EXCEPT ![c] = Idle]
  /\ last' = res
  /\ UNCHANGED beyond

\* The first free slot, for a call the caller does not make.
FreeSlot(c) == calls[c] = Idle /\ \A d \in Slots : d < c => calls[d] # Idle

\* stopAudio up to its first await, entered by invocation r: with a sound
\* held, stopAsync is called on it; with none, stopAudio returns at once.
StopAudioEntry(r) ==
  IF currentSound # NoHandle
  THEN [r EXCEPT !.pc = "stopAsync", !.h = currentSound]
  ELSE [r EXCEPT !.pc = "stopped"]

\* stopAudio has returned to invocation r: playAudio goes on to createAsync,
\* stopAudio() resolves, and the call made by the status callback just ends.
AfterStopAudio(c, r) ==
  IF r.op = "playAudio" THEN Await(c, [r EXCEPT !.pc = "createAsync", !.h = NoHandle])
  ELSE IF r.op = "stopAudio" THEN Return(c, Resolved(r))
  ELSE Await(c, Idle)

\* The caller calls playAudio(audioUri): stopAudio() is awaited first.
PlayAudioCall(c) ==
  /\ Free(c)
  /\ invoked' = invoked + 1
  /\ LET r == StopAudioEntry([Idle EXCEPT !.op = "playAudio", !.uri = "u1"]) IN
       IF r.pc = "stopped" THEN AfterStopAudio(c, r) ELSE Await(c, r)
  /\ UNCHANGED <<manager, device, currentSound>>

\* The caller calls stopAudio().
StopAudioCall(c) ==
  /\ Free(c)
  /\ invoked' = invoked + 1
  /\ LET r == StopAudioEntry([Idle EXCEPT !.op = "stopAudio"]) IN
       IF r.pc = "stopped" THEN AfterStopAudio(c, r) ELSE Await(c, r)
  /\ UNCHANGED <<manager, device, currentSound>>

\* Sound s plays to its end: its status callback sees didJustFinish and
\* calls this.stopAudio(), which acts on the sound held at that moment.
SoundFinishes(s) ==
  /\ s \in playingSounds
  /\ playingSounds' = playingSounds \ {s}
  /\ LET r == StopAudioEntry([Idle EXCEPT !.op = "onFinish"]) IN
       IF r.pc = "stopped"
       THEN UNCHANGED <<calls, last, beyond>>
       ELSE \E c \in Slots : FreeSlot(c) /\ Await(c, r)
  /\ UNCHANGED <<manager, recordings, loadedSounds, invoked, currentSound>>

\* stopAsync completes; it cannot succeed on a sound that is not loaded.
\* On success unloadAsync is called on this.currentSound as it is now (a
\* TypeError when it has been cleared meanwhile); an error is caught and
\* logged, and stopAudio returns.
StopAsyncDone(c) ==
  /\ calls[c].pc = "stopAsync"
  /\ \E outcome \in IoOutcomes :
       LET r == [calls[c] EXCEPT !.io = outcome] IN
       /\ outcome = "ok" => calls[c].h \in loadedSounds
       /\ playingSounds' = IF outcome = "ok" THEN playingSounds \ {calls[c].h}
                           ELSE playingSounds
       /\ IF outcome = "ok" /\ currentSound # NoHandle
          THEN Await(c, [r EXCEPT !.pc = "unloadAsync", !.h = currentSound])
          ELSE AfterStopAudio(c, r)
  /\ UNCHANGED <<manager, recordings, loadedSounds, invoked, currentSound>>

\* unloadAsync completes (on a sound that is not loaded it does nothing and
\* succeeds); on success this.currentSound is set to null.
UnloadAsyncDone(c) ==
  /\ calls[c].pc = "unloadAsync"
  /\ \E outcome \in IoOutcomes :
       LET r == [calls[c] EXCEPT !.io = outcome] IN
       /\ outcome = "fail" => calls[c].h \in loadedSounds
       /\ IF outcome = "ok"
          THEN /\ loadedSounds' = loadedSounds \ {calls[c].h}
               /\ playingSounds' = playingSounds \ {calls[c].h}
               /\ currentSound' = NoHandle
          ELSE UNCHANGED <<loadedSounds, playingSounds, currentSound>>
       /\ AfterStopAudio(c, r)
  /\ UNCHANGED <<manager, recordings, invoked>>

\* Audio.Sound.createAsync({uri}, {shouldPlay: true}) completes: the new
\* sound is loaded and playing, it is stored and gets its status callback.
\* An error is caught and logged.  Either way playAudio resolves.
CreateAsyncDone(c) ==
  /\ calls[c].pc = "createAsync"
  /\ \E outcome \in IoOutcomes :
       LET r == [calls[c] EXCEPT !.io = outcome] IN
       IF outcome = "ok"
       THEN \E s \in NewSounds :
              /\ loadedSounds' = loadedSounds \cup {s}
              /\ playingSounds' = playingSounds \cup {s}
              /\ currentSound' = s
              /\ Return(c, Resolved([r EXCEPT !.h = s]))
       ELSE /\ Return(c, Resolved(r))
            /\ UNCHANGED <<loadedSounds, playingSounds, currentSound>>
  /\ UNCHANGED <<manager, recordings, invoked>>

----------------------------------------------------------------------------
(* ElevenLabsService: getAvailableVoices (lines 500-521, 599-642)          *)

\* getFallbackVoices(): the built-in catalog.
FallbackVoices ==
  << [id |-> "pNInz6obpgDQGcFmaJgB", name |-> "Adam",
      description |-> "Deep, authoritative voice perfect for formal examinations",
      gender |-> "male", accent |-> "american", category |-> "premade"],
     [id |-> "EXAVITQu4vr4xnSDxMaL", name |-> "Bella",
      description |-> "Clear, professional female voice with neutral accent",
      gender |-> "female", accent |-> "american", category |-> "premade"],
     [id |-> "VR6AewLTigWG4xSOukaG", name |-> "Arnold",
      description |-> "Confident, experienced examiner voice",
      gender |-> "male", accent |-> "american", category |-> "premade"],
     [id |-> "MF3mGyEYCl7XYWbV9V6O", name |-> "Elli",
      description |-> "Warm, encouraging coach voice",
      gender |-> "female", accent |-> "american", category |-> "premade"],
     [id |-> "TxGEqnHWrfWFTfGW9XjX", name |-> "Josh",
      description |-> "Young, energetic speaking coach",
      gender |-> "male", accent |-> "american", category |-> "premade"] >>

\* A catalog the voices endpoint may send.
RemoteVoices ==
  << [id |-> "v1", name |-> "Remote", description |-> "", gender |-> "female",
      accent |-> "british", category |-> "cloned"] >>

\* JSON bodies of a response of the voices endpoint: null, and objects that
\* carry a success flag or not, a catalog or not, an error text or not.
VoicesBodies ==
  {Null}
    \cup [success : BOOLEAN, voices : {RemoteVoices}]
    \cup [success : BOOLEAN, error : {"upstream failed"}]
    \cup [success : BOOLEAN]
    \cup [voices : {RemoteVoices}]

\* The responses fetch may resolve with; text tells whether the body is
\* JSON text, and body is what json() then parses it to.
VoicesResponses ==
  [status : {200, 500}, text : {TRUE}, body : VoicesBodies]
    \cup [status : {200, 500}, text : {FALSE}, body : {Null}]

\* The value of property k of the object o, undefined when o has none.
Property(o, k) == IF k \in DOMAIN o THEN o[k] ELSE Undefined

\* Mutant: the success flag is not looked at.
VoicesFlagIgnored(data) == TRUE

\* data.success is truthy (the negation of the test on line 511).
VoicesSuccess(data) == "success" \in DOMAIN data /\ data.success

\* What the invocation worked on and what it returned.
VoicesResult(response, returned) ==
  [response |-> response, returned |-> returned]

\* The catch block: the fallback catalog is returned.
VoicesFallback(c, r) ==
  Return(c, Resolved([r EXCEPT
                        !.data = VoicesResult(r.data, FallbackVoices)]))

\* The caller calls getAvailableVoices(): the GET request is issued.
GetAvailableVoicesCall(c) ==
  /\ Free(c)
  /\ invoked' = invoked + 1
  /\ Await(c, [Idle EXCEPT !.op = "voices", !.pc = "fetchVoices"])
  /\ UNCHANGED <<manager, device, currentSound>>

\* fetch settles: with a response, whose json() is awaited, or with a
\* transport error, which the catch block answers.
VoicesFetchDone(c) ==
  /\ calls[c].pc = "fetchVoices"
  /\ \/ \E response \in VoicesResponses :
          Await(c, [calls[c] EXCEPT !.pc = "jsonVoices", !.io = "ok",
                                    !.data = response])
     \/ VoicesFallback(c, [calls[c] EXCEPT !.io = "reject"])
  /\ UNCHANGED <<manager, device, invoked, currentSound>>

\* response.json() settles: a body that is not JSON rejects, reading
\* success of null throws, and a falsy flag throws; all three end in the
\* catch block.  Otherwise data.voices is returned.
VoicesJsonDone(c) ==
  /\ calls[c].pc = "jsonVoices"
  /\ LET response == calls[c].data
         data == response.body
     IN IF ~response.text
        THEN VoicesFallback(c, [calls[c] EXCEPT !.io = "badjson"])
        ELSE IF data = Null \/ ~VoicesSuccess(data)
        THEN VoicesFallback(c, calls[c])
        ELSE Return(c, Resolved([calls[c] EXCEPT
               !.data = VoicesResult(response, Property(data, "voices"))]))
  /\ UNCHANGED <<manager, device, invoked, currentSound>>

----------------------------------------------------------------------------
(* The conversation endpoint                                                *)
(* (src/functions/elevenlabs-conversation/index.ts, lines 3-102)           *)
(*                                                                         *)
(* serve() runs the handler once for every request; an invocation of the   *)
(* handler is a record in calls (op "serve") whose data holds the request, *)
(* the environment it read and the upstream response, and the Response it  *)
(* returns is what last shows.                                             *)

\* The actions the switch knows (lines 27, 43, 56, 67).
EndpointActions ==
  {"start_conversation", "send_audio", "get_conversation", "end_conversation"}

\* JSON bodies of a request: null, an object without action, and objects
\* with a known or an unknown action.
EndpointBodies ==
  {Null, [conversationId |-> "c1"]}
    \cup [action : EndpointActions \cup {"bogus"}, conversationId : {"c1"}]

\* The requests: text tells whether the body is JSON text.
EndpointRequests ==
  [method : {"OPTIONS", "POST"}, text : {TRUE}, body : EndpointBodies]
    \cup [method : {"OPTIONS", "POST"}, text : {FALSE}, body : {Null}]

\* What Deno.env.get gives for the two settings.
EndpointEnvs == [apiKey : {Undefined, "key"}, agentId : {Undefined, "", "a1"}]

\* The responses the upstream fetch may resolve with.
UpstreamResponses ==
  [status : {200, 401}, text : {TRUE},
   body : {[conversation_id |-> "c1"], [detail |-> "unauthorized"]}]
    \cup [status : {200, 401}, text : {FALSE}, body : {Null}]

\* The messages of the errors fetch may reject with.
UpstreamErrors == {"network error", ""}

\* The Response objects the handler makes: the status is 200 unless given.
EndpointResponse(status, body) == [status |-> status, body |-> body]

\* The record of one invocation: the request, the environment, whether the
\* upstream fetch was issued, its response, and the Response returned.
Served(request, env) ==
  [request |-> request, env |-> env, fetched |-> FALSE, upstream |-> Null,
   response |-> Null]

\* error.message || 'Failed to process conversation request' (line 91).
ErrorMessage(message) ==
  IF Truthy(message) THEN message
  ELSE "Failed to process conversation request"

\* The catch block (lines 88-99).
EndpointCatch(c, r, message) ==
  Return(c, Resolved([r EXCEPT !.data.response =
    EndpointResponse(500, [error |-> ErrorMessage(message)])]))

\* A request arrives: OPTIONS is answered at once (lines 5-13), and
\* otherwise req.json() is awaited.
ServeCall(c) ==
  /\ Free(c)
  /\ invoked' = invoked + 1
  /\ \E request \in EndpointRequests, env \in EndpointEnvs :
       LET r == [Idle EXCEPT !.op = "serve", !.data = Served(request, env)]
       IN IF request.method = "OPTIONS"
          THEN Return(c, Resolved([r EXCEPT !.data.response =
                                     EndpointResponse(200, Null)]))
          ELSE Await(c, [r EXCEPT !.pc = "reqJson"])
  /\ UNCHANGED <<manager, device, currentSound>>

\* req.json() settles (line 16): a body that is not JSON rejects and the
\* destructuring of null throws; then the settings are checked (lines
\* 20-22) and the switch issues the upstream fetch or throws (lines 26-79).
ServeBodyDone(c) ==
  /\ calls[c].op = "serve" /\ calls[c].pc = "reqJson"
  /\ LET r == calls[c]
         request == r.data.request
         env == r.data.env
         action == Property(request.body, "action")
     IN IF ~request.text
        THEN EndpointCatch(c, [r EXCEPT !.io = "badjson"],
                           "Unexpected token in JSON")
        ELSE IF request.body = Null
        THEN EndpointCatch(c, r, "Cannot destructure property 'action'")
        ELSE IF ~Truthy(env.apiKey) \/ ~Truthy(env.agentId)
        THEN EndpointCatch(c, r,
               "ElevenLabs API key or Agent ID not configured")
        ELSE IF action \notin EndpointActions
        THEN EndpointCatch(c, r, "Unknown action: " \o action)
        ELSE Await(c, [r EXCEPT !.pc = "upstream", !.data.fetched = TRUE])
  /\ UNCHANGED <<manager, device, invoked, currentSound>>

\* The upstream fetch settles: with a response of any status, whose json()
\* is awaited (line 81), or with an error, which the catch block answers.
ServeFetchDone(c) ==
  /\ calls[c].op = "serve" /\ calls[c].pc = "upstream"
  /\ \/ \E response \in UpstreamResponses :
          Await(c, [calls[c] EXCEPT !.pc = "resJson", !.io = "ok",
                                    !.data.upstream = response])
     \/ \E message \in UpstreamErrors :
          EndpointCatch(c, [calls[c] EXCEPT !.io = "reject"], message)
  /\ UNCHANGED <<manager, device, invoked, currentSound>>

\* response.json() settles: the parsed body is returned in a Response of
\* the default status (lines 83-88); a body that is not JSON rejects.
ServeJsonDone(c) ==
  /\ calls[c].op = "serve" /\ calls[c].pc = "resJson"
  /\ LET r == calls[c]
         upstream == r.data.upstream
     IN IF ~upstream.text
        THEN EndpointCatch(c, [r EXCEPT !.io = "badjson"],
                           "Unexpected token in JSON")
        ELSE Return(c, Resolved([r EXCEPT !.data.response =
                                   EndpointResponse(200, upstream.body)]))
  /\ UNCHANGED <<manager, device, invoked, currentSound>>

----------------------------------------------------------------------------
(* PracticeScreen: the user, the dialogs and the timer                     *)
(* (src/unnamed/part_003, lines 724-870 and 1002-1010)                     *)
(*                                                                         *)
(* A dialog of a native build is modal: while one is shown the buttons of  *)
(* the screen cannot be pressed, and the dialogs are shown one at a time   *)
(* in the order they were raised.                                          *)

\* The user presses nothing of the screen, or presses something else than
\* the microphone.
Pressed(what) == gesture' = what

\* initializeConversation up to its await (lines 754-759).
InitializeConversation(c) ==
  /\ calls' = [calls EXCEPT ![c] =
                 [Idle EXCEPT !.op = "start", !.pc = "fetchStart",
                              !.by = "initializeConversation"]]
  /\ last' = last

\* The screen is entered, once in a behaviour: the effect of the first
\* render runs initializeConversation (lines 736-751).
ScreenEnters(c) ==
  /\ ~entered
  /\ FreeSlot(c)
  /\ entered' = TRUE
  /\ mounted' = TRUE
  /\ connectionStatus' = "connecting"
  /\ conversationState' = "processing"
  /\ InitializeConversation(c)
  /\ UNCHANGED <<native, isRecording, shownSession, shownMessages, alerts,
                 settleTimers, resets, captures, gesture>>
  /\ UNCHANGED <<manager, device, invoked, apart>>

\* The dialog shown is one whose button has no handler ('OK' of the two
\* error dialogs) or the user presses 'Cancel' in the 'End Session' dialog.
AlertDismissed ==
  /\ alerts # <<>>
  /\ Head(alerts) \in {"Recording Error", "Processing Error", "End Session"}
  /\ alerts' = Tail(alerts)
  /\ Pressed("none")
  /\ UNCHANGED <<native, entered, mounted, display, settleTimers, resets, captures>>
  /\ UNCHANGED <<manager, calls, last, device, invoked, apart>>

\* 'Ready' in the 'Session Started' dialog (line 773).
ReadyPressed ==
  /\ alerts # <<>> /\ Head(alerts) = "Session Started"
  /\ alerts' = Tail(alerts)
  /\ SetConversationState("listening")
  /\ Pressed("none")
  /\ UNCHANGED <<native, entered, mounted, settleTimers, resets, captures>>
  /\ UNCHANGED <<manager, calls, last, device, invoked, apart>>

\* 'Retry' in the 'Connection Error' dialog (line 783) runs
\* initializeConversation again.
RetryPressed(c) ==
  /\ alerts # <<>> /\ Head(alerts) = "Connection Error"
  /\ FreeSlot(c)
  /\ alerts' = Tail(alerts)
  /\ Display("processing", isRecording, shownSession, shownMessages,
             "connecting")
  /\ InitializeConversation(c)
  /\ Pressed("none")
  /\ UNCHANGED <<native, entered, mounted, settleTimers, resets, captures>>
  /\ UNCHANGED <<manager, device, invoked, apart>>

\* 'End Session' in the 'End Session' dialog (lines 858-866):
\* endConversation() is awaited; without a session it returns at once.
EndSessionConfirmed(c) ==
  /\ alerts # <<>> /\ Head(alerts) = "End Session"
  /\ FreeSlot(c)
  /\ alerts' = Tail(alerts)
  /\ Pressed("none")
  /\ UNCHANGED <<manager, device, invoked, apart>>
  /\ LET r == [Idle EXCEPT !.op = "end", !.by = "endSession"] IN
       IF EndWithoutSession
       THEN LeaveScreen(c, Resolved(r))
       ELSE /\ calls' = [calls EXCEPT ![c] =
                               [r EXCEPT !.pc = "fetchEnd", !.data = EndRequest]]
            /\ last' = last
            /\ UNCHANGED <<mounted, display, resets>>
  /\ UNCHANGED <<native, entered, settleTimers, captures>>

\* The close button (line 938): endSession raises the 'End Session' dialog.
ClosePressed ==
  /\ mounted /\ alerts = <<>>
  /\ Alert("End Session")
  /\ Pressed("none")
  /\ UNCHANGED <<native, entered, mounted, display, settleTimers, resets, captures>>
  /\ UNCHANGED <<manager, calls, last, device, invoked, apart>>

\* The voice button (line 948): onChangeVoice of Home (src/unnamed/part_000,
\* line 91) leaves the practice state.  The screen is unmounted and its
\* cleanup (lines 747-750) calls endConversation(), awaited by nobody.
VoicePressed(c) ==
  /\ mounted /\ alerts = <<>>
  /\ mounted' = FALSE
  /\ Pressed("voice")
  /\ IF EndWithoutSession THEN UNCHANGED <<calls, last>>
     ELSE /\ FreeSlot(c)
          /\ calls' = [calls EXCEPT ![c] =
                         [Idle EXCEPT !.op = "end", !.by = "unmount",
                                      !.pc = "fetchEnd", !.data = EndRequest]]
          /\ last' = last
  /\ UNCHANGED <<native, entered, display, alerts, settleTimers, resets, captures>>
  /\ UNCHANGED <<manager, device, invoked, apart>>

\* The disabled property of the microphone button (line 1009).
MicrophoneDisabled ==
  shownSession = Null \/ conversationState \in {"processing", "speaking"}

\* Mutant: startRecording has no guard.
StartRecordingUnguarded == FALSE

\* The guard of startRecording (lines 789-791).
StartRecordingRefused == shownSession = Null \/ conversationState # "idle"

\* The press is ignored: nothing but the record of it changes.
Ignored ==
  /\ Pressed("ignored")
  /\ UNCHANGED <<native, entered, mounted, display, alerts, settleTimers, resets,
                 captures>>
  /\ UNCHANGED <<manager, calls, last, device, invoked, apart>>

\* startRecording of the screen up to its await (lines 788-794).
startRecording(c) ==
  IF StartRecordingRefused THEN Ignored
  ELSE /\ captures < MaxCaptures
       /\ FreeSlot(c)
       /\ captures' = captures + 1
       /\ calls' = [calls EXCEPT ![c] =
                      [Idle EXCEPT !.op = "startRec", !.pc = "permissions",
                                   !.by = "startRecording"]]
       /\ last' = last
       /\ Pressed("capture")
       /\ UNCHANGED <<native, entered, mounted, display, alerts, settleTimers, resets>>
       /\ UNCHANGED <<manager, device, invoked, apart>>

\* stopRecording of the screen up to its await (lines 814-828): the states
\* are set first, then stopRecording() of the service is called, which
\* throws at once when no recording is held.
stopRecording(c) ==
  IF ~isRecording \/ shownSession = Null THEN Ignored
  ELSE /\ FreeSlot(c)
       /\ Pressed("stop")
       /\ LET r == [Idle EXCEPT !.op = "stopRec", !.by = "stopRecording"] IN
            IF StopWithoutRecording
            THEN /\ Over(c, Rejected(r, "NoActiveRecording"))
                 /\ Display("idle", FALSE, shownSession, shownMessages,
                            connectionStatus)
                 /\ Alert("Processing Error")
            ELSE /\ calls' = [calls EXCEPT ![c] =
                                [r EXCEPT !.pc = "stopUnload",
                                          !.h = audioRecording]]
                 /\ last' = last
                 /\ Display("processing", FALSE, shownSession, shownMessages,
                            connectionStatus)
                 /\ UNCHANGED alerts
       /\ UNCHANGED <<native, entered, mounted, settleTimers, resets, captures>>
       /\ UNCHANGED <<manager, device, invoked, apart>>

\* The user presses the microphone button (lines 1002-1010): a disabled
\* button calls nothing, and otherwise isRecording chooses the handler.
MicrophonePressed(c) ==
  /\ mounted /\ alerts = <<>>
  /\ IF MicrophoneDisabled THEN Ignored
     ELSE IF isRecording THEN stopRecording(c)
     ELSE startRecording(c)

\* A timeout set by stopRecording fires (lines 839-841).
SettleTimerFires ==
  /\ settleTimers > 0
  /\ settleTimers' = settleTimers - 1
  /\ SetConversationState("idle")
  /\ UNCHANGED <<native, entered, mounted, alerts, resets, captures, gesture>>
  /\ UNCHANGED <<manager, calls, last, device, invoked, apart>>

\* The screen before it is entered: the initial values of its states
\* (lines 725-729).
ScreenConstructed ==
  /\ entered = FALSE
  /\ mounted = FALSE
  /\ conversationState = "idle"
  /\ isRecording = FALSE
  /\ shownSession = Null
  /\ shownMessages = <<>>
  /\ connectionStatus = "disconnected"
  /\ alerts = <<>>
  /\ settleTimers = 0
  /\ resets = 0
  /\ captures = 0
  /\ gesture = "none"

----------------------------------------------------------------------------
(* The service under any caller                                            *)

\* The state after construction, under a caller that keeps at most p
\* invocations in flight.
Constructed(p) ==
  /\ currentSession = Null
  /\ messages = <<>>
  /\ audioRecording = NoHandle
  /\ audioSound = NoHandle
  /\ calls = [c \in Slots |-> Idle]
  /\ last = NoResult
  /\ invoked = 0
  /\ activeRecordings = {}
  /\ preparedRecordings = {}
  /\ recorderExists = FALSE
  /\ loadedSounds = {}
  /\ playingSounds = {}
  /\ parallel = p
  /\ snapshot = Null
  /\ ChannelConstructed
  /\ currentSound = NoHandle
  /\ ScreenConstructed

\* The build only matters to the screen, which the caller of the services
\* stands in for unless the screen is entered.
Init == Constructed(MaxCalls) /\ native = FALSE

\* A caller that awaits every call before it makes the next one.
InitSequential == Constructed(1) /\ native = FALSE

Next ==
  \/ \E c \in Slots : StartConversationCall(c)
  \/ \E c \in Slots : StartConversationDone(c)
  \/ \E c \in Slots : SendAudioMessageCall(c)
  \/ \E c \in Slots : SendFetchAudioDone(c)
  \/ \E c \in Slots : SendBase64Done(c)
  \/ \E c \in Slots : SendRemoteDone(c)
  \/ \E c \in Slots : PlayUnloadDone(c)
  \/ \E c \in Slots : PlayCreateDone(c)
  \/ \E c \in Slots : PlayStartDone(c)
  \/ PlaybackFinished
  \/ \E c \in Slots : StartRecordingCall(c)
  \/ \E c \in Slots : PermissionsDone(c)
  \/ \E c \in Slots : AudioModeDone(c)
  \/ \E c \in Slots : PrepareDone(c)
  \/ \E c \in Slots : StartAsyncDone(c)
  \/ \E c \in Slots : StopRecordingCall(c)
  \/ \E c \in Slots : StopUnloadDone(c)
  \/ \E c \in Slots : EndConversationCall(c)
  \/ \E c \in Slots : EndFetchDone(c)
  \/ \E c \in Slots : EndStopRecordingDone(c)
  \/ \E c \in Slots : EndUnloadSoundDone(c)

Spec == Init /\ [][Next]_vars

\* The conversation methods under a caller that keeps snapshots.
NextSnapshot ==
  \/ \E c \in Slots : StartConversationCall(c)
  \/ \E c \in Slots : StartConversationDone(c)
  \/ \E c \in Slots : SendAudioMessageCall(c)
  \/ \E c \in Slots : SendFetchAudioDone(c)
  \/ \E c \in Slots : SendBase64Done(c)
  \/ \E c \in Slots : SendRemoteDone(c)
  \/ \E c \in Slots : PlayUnloadDone(c)
  \/ \E c \in Slots : PlayCreateDone(c)
  \/ \E c \in Slots : PlayStartDone(c)
  \/ GetMessages
  \/ MutateSnapshot

SpecSnapshot == InitSequential /\ [][NextSnapshot]_vars

\* The channel under any caller, any transport and any timer.
NextChannel ==
  \/ Connect
  \/ \E t \in TransportIds : TransportOpens(t)
  \/ \E t \in TransportIds : TransportCloses(t)
  \/ \E t \in TransportIds : TransportFails(t)
  \/ TimerFires
  \/ Send
  \/ Disconnect

SpecChannel == Init /\ [][NextChannel]_vars

\* The reconnect policy, under any transport and any timer, with a caller
\* that connects and disconnects.
NextReconnect ==
  \/ Connect
  \/ \E t \in TransportIds : TransportOpens(t)
  \/ \E t \in TransportIds : TransportCloses(t)
  \/ \E t \in TransportIds : TransportFails(t)
  \/ TimerFires
  \/ Disconnect

SpecReconnect == Init /\ [][NextReconnect]_vars

\* disconnect() called in any state of queue, listeners, counter, socket
\* and timers, under a transport that closes without an error.
NextRelease ==
  \/ Connect
  \/ \E t \in TransportIds : TransportOpens(t)
  \/ \E t \in TransportIds : TransportCloses(t)
  \/ Send
  \/ Disconnect
  \/ On

SpecRelease == Init /\ [][NextRelease]_vars

\* The dispatch of inbound frames to the listeners, under any caller that
\* registers and removes them and any transport that closes without an
\* error.
NextListeners ==
  \/ Connect
  \/ \E t \in TransportIds : TransportOpens(t)
  \/ \E t \in TransportIds : TransportCloses(t)
  \/ \E t \in TransportIds : TransportMessage(t)
  \/ Disconnect
  \/ On
  \/ Off

SpecListeners == Init /\ [][NextListeners]_vars

\* The playback methods of ElevenLabsService under a caller that awaits
\* every call, with sounds that may play to their end at any moment.
NextPlayback ==
  \/ \E c \in Slots : PlayAudioCall(c)
  \/ \E c \in Slots : StopAudioCall(c)
  \/ \E s \in SoundIds : SoundFinishes(s)
  \/ \E c \in Slots : StopAsyncDone(c)
  \/ \E c \in Slots : UnloadAsyncDone(c)
  \/ \E c \in Slots : CreateAsyncDone(c)

SpecPlayback == InitSequential /\ [][NextPlayback]_vars

\* getAvailableVoices under any caller and any answer of the endpoint.
NextVoices ==
  \/ \E c \in Slots : GetAvailableVoicesCall(c)
  \/ \E c \in Slots : VoicesFetchDone(c)
  \/ \E c \in Slots : VoicesJsonDone(c)

SpecVoices == Init /\ [][NextVoices]_vars

\* The endpoint under any requests, settings and upstream answers, one
\* request at a time.
NextEndpoint ==
  \/ \E c \in Slots : ServeCall(c)
  \/ \E c \in Slots : ServeBodyDone(c)
  \/ \E c \in Slots : ServeFetchDone(c)
  \/ \E c \in Slots : ServeJsonDone(c)

SpecEndpoint == InitSequential /\ [][NextEndpoint]_vars

\* The screen, on either build, with the service it drives: the user
\* presses what can be pressed, every awaited operation ends in any way it
\* can, and sounds play to their end.
NextPractice ==
  \/ \E c \in Slots : ScreenEnters(c)
  \/ \E c \in Slots : MicrophonePressed(c)
  \/ ClosePressed
  \/ \E c \in Slots : VoicePressed(c)
  \/ AlertDismissed
  \/ ReadyPressed
  \/ \E c \in Slots : RetryPressed(c)
  \/ \E c \in Slots : EndSessionConfirmed(c)
  \/ SettleTimerFires
  \/ \E c \in Slots : StartConversationDone(c)
  \/ \E c \in Slots : PermissionsDone(c)
  \/ \E c \in Slots : AudioModeDone(c)
  \/ \E c \in Slots : PrepareDone(c)
  \/ \E c \in Slots : StartAsyncDone(c)
  \/ \E c \in Slots : StopUnloadDone(c)
  \/ \E c \in Slots : SendFetchAudioDone(c)
  \/ \E c \in Slots : SendBase64Done(c)
  \/ \E c \in Slots : SendRemoteDone(c)
  \/ \E c \in Slots : PlayUnloadDone(c)
  \/ \E c \in Slots : PlayCreateDone(c)
  \/ \E c \in Slots : PlayStartDone(c)
  \/ PlaybackFinished
  \/ \E c \in Slots : EndFetchDone(c)
  \/ \E c \in Slots : EndStopRecordingDone(c)
  \/ \E c \in Slots : EndUnloadSoundDone(c)

InitPractice == Constructed(MaxCalls) /\ native \in BOOLEAN

SpecPractice == InitPractice /\ [][NextPractice]_vars

\* The screen of a native build.  The 'Session Started' dialog covers the
\* screen while the state is idle and 'Ready' leaves the state listening
\* with no capture, so startRecording never passes its guard and neither
\* a recording nor a sound is ever made.
NextNative ==
  \/ \E c \in Slots : ScreenEnters(c)
  \/ \E c \in Slots : MicrophonePressed(c)
  \/ ClosePressed
  \/ \E c \in Slots : VoicePressed(c)
  \/ AlertDismissed
  \/ ReadyPressed
  \/ \E c \in Slots : RetryPressed(c)
  \/ \E c \in Slots : EndSessionConfirmed(c)
  \/ \E c \in Slots : StartConversationDone(c)
  \/ \E c \in Slots : EndFetchDone(c)

InitNative == Constructed(MaxCalls) /\ native = TRUE

SpecNative == InitNative /\ [][NextNative]_vars

\* The screen of either build whose microphone is not pressed.
NextBootstrap ==
  \/ \E c \in Slots : ScreenEnters(c)
  \/ ClosePressed
  \/ \E c \in Slots : VoicePressed(c)
  \/ AlertDismissed
  \/ ReadyPressed
  \/ \E c \in Slots : RetryPressed(c)
  \/ \E c \in Slots : EndSessionConfirmed(c)
  \/ \E c \in Slots : StartConversationDone(c)
  \/ \E c \in Slots : EndFetchDone(c)

SpecBootstrap == InitPractice /\ [][NextBootstrap]_vars

\* The awaited operation of the invocation in slot c completes.
Completes(c) ==
  \/ StartConversationDone(c)
  \/ PermissionsDone(c)
  \/ AudioModeDone(c)
  \/ PrepareDone(c)
  \/ StartAsyncDone(c)
  \/ StopUnloadDone(c)
  \/ SendFetchAudioDone(c)
  \/ SendBase64Done(c)
  \/ SendRemoteDone(c)
  \/ PlayUnloadDone(c)
  \/ PlayCreateDone(c)
  \/ PlayStartDone(c)

\* The user answers the dialog shown.  The two error dialogs of a turn are
\* never raised: a native build has no turn, and the other shows none.
Acknowledges ==
  \/ ReadyPressed
  \/ \E c \in Slots : RetryPressed(c)

\* The screen whose session the user does not end: neither the close
\* button nor the voice button is pressed.
NextSession ==
  \/ \E c \in Slots : ScreenEnters(c)
  \/ \E c \in Slots : MicrophonePressed(c)
  \/ Acknowledges
  \/ SettleTimerFires
  \/ \E c \in Slots : Completes(c)
  \/ PlaybackFinished

\* Every pending operation completes, every timeout fires, and the user
\* keeps pressing the microphone and answering the dialogs.
FairSession ==
  /\ \A c \in Slots : WF_vars(Completes(c))
  /\ WF_vars(\E c \in Slots : ScreenEnters(c))
  /\ WF_vars(\E c \in Slots : MicrophonePressed(c))
  /\ WF_vars(Acknowledges)
  /\ WF_vars(SettleTimerFires)
  /\ WF_vars(PlaybackFinished)

SpecSession == InitPractice /\ [][NextSession]_vars /\ FairSession

\* The microphone button of a user who takes one turn: a capture is
\* started once, and the button is pressed again only to stop it.
FirstTurn(c) == (captures = 0 \/ isRecording) /\ MicrophonePressed(c)

\* Pending operations of the bootstrap and of the first turn complete; no
\* sound is held yet when the reply of the first turn is played.
FirstTurnCompletes(c) ==
  \/ StartConversationDone(c)
  \/ PermissionsDone(c)
  \/ AudioModeDone(c)
  \/ PrepareDone(c)
  \/ StartAsyncDone(c)
  \/ StopUnloadDone(c)
  \/ SendFetchAudioDone(c)
  \/ SendBase64Done(c)
  \/ SendRemoteDone(c)
  \/ PlayCreateDone(c)
  \/ PlayStartDone(c)

\* Pending operations of endConversation complete.
EndCompletes(c) ==
  \/ EndFetchDone(c)
  \/ EndStopRecordingDone(c)
  \/ EndUnloadSoundDone(c)

\* The screen of the web build through its first turn and its unmount by
\* the voice button.
NextTeardown ==
  \/ \E c \in Slots : ScreenEnters(c)
  \/ \E c \in Slots : FirstTurn(c)
  \/ \E c \in Slots : VoicePressed(c)
  \/ SettleTimerFires
  \/ \E c \in Slots : FirstTurnCompletes(c)
  \/ \E c \in Slots : EndCompletes(c)
  \/ PlaybackFinished

SpecTeardown == Init /\ [][NextTeardown]_vars

\* Every pending operation completes and every timeout fires; the user
\* presses what they choose to.
FairTeardown ==
  /\ \A c \in Slots : WF_vars(FirstTurnCompletes(c))
  /\ \A c \in Slots : WF_vars(EndCompletes(c))
  /\ WF_vars(\E c \in Slots : ScreenEnters(c))
  /\ WF_vars(SettleTimerFires)
  /\ WF_vars(PlaybackFinished)

SpecUnmount == Init /\ [][NextTeardown]_vars /\ FairTeardown

\* The service under a caller that awaits every call.
SpecSequential == InitSequential /\ [][Next]_vars

----------------------------------------------------------------------------
(* Steps, as the properties below observe them                             *)

\* The invocation in slot c takes a step that moves it.
StepBy(c) == calls[c] # Idle /\ calls'[c] # calls[c]

\* The invocation in slot c settles in this step.
SettlesBy(c) == calls[c] # Idle /\ calls'[c] = Idle

\* The outcome of the operation whose completion this step of slot c handles,
\* and the answer it carried.
PostIo(c) == IF calls'[c] = Idle THEN last'.io ELSE calls'[c].io
PostData(c) == IF calls'[c] = Idle THEN last'.data ELSE calls'[c].data

\* Method op is called in this step; the call either is suspended at its
\* first await in a free slot or settles at once.
Invokes(op) ==
  /\ invoked' = invoked + 1
  /\ IF calls' = calls THEN last'.op = op
     ELSE \E c \in Slots : calls[c] = Idle /\ calls'[c].op = op

\* The awaits of sendAudioMessage that precede the two pushes.
BeforePush == {"fetchAudio", "base64", "sendRemote"}

\* s is a prefix of t.
IsPrefix(s, t) == Len(s) <= Len(t) /\ SubSeq(t, 1, Len(s)) = s

----------------------------------------------------------------------------
(* The claims                                                              *)

\* C1: the step of a sendAudioMessage call that receives a successful
\* send_audio answer appends exactly two messages to the history, whatever
\* the history is: first a user message whose content is the returned
\* transcript, or the placeholder "[Audio message]" when no transcript (none
\* or an empty one) was returned, then an agent message whose content is the
\* reply text (empty when the answer carries none); and a call only resolves
\* after that step.
C1_SendAppendsUserThenAgent ==
  [][\A c \in Slots :
       /\ (calls[c].op = "send" /\ calls[c].pc = "sendRemote" /\ StepBy(c)
             /\ PostIo(c) = "ok") =>
            LET d == PostData(c)
                n == Len(messages)
            IN /\ Len(messages') = n + 2
               /\ SubSeq(messages', 1, n) = messages
               /\ messages'[n + 1].type = "user"
               /\ messages'[n + 1].content =
                    IF d.user_transcript \in {Undefined, ""}
                    THEN "[Audio message]" ELSE d.user_transcript
               /\ messages'[n + 2].type = "agent"
               /\ messages'[n + 2].content =
                    IF d.agent_response = Undefined THEN "" ELSE d.agent_response
       /\ (calls[c].op = "send" /\ SettlesBy(c) /\ last'.result = "resolved") =>
            calls[c].pc \notin {"fetchAudio", "base64"}
            /\ (calls[c].pc = "sendRemote" => last'.io = "ok")
    ]_vars

\* C1 witness: a send has resolved on a history that already held a turn, and
\* its answer carried no transcript, so the placeholder was stored.
C1_Witness ==
  /\ last.op = "send" /\ last.result = "resolved"
  /\ last.data.user_transcript = Undefined
  /\ Len(messages) = 4
  /\ messages[3].content = Placeholder
  /\ messages[4].content = "Tell me more"

\* C2: sendAudioMessage called with no session rejects at once with the
\* no-active-session error, leaves no operation pending (no request is
\* issued) and changes neither the history nor any other state of the service.
C2_SendWithoutSessionFails ==
  [][(Invokes("send") /\ currentSession = Null) =>
       /\ calls' = calls
       /\ last'.result = "rejected" /\ last'.error = "NoActiveSession"
       /\ UNCHANGED <<manager, device>>
    ]_vars

\* C2 witness: a send was rejected for lack of a session.
C2_Witness ==
  /\ last.op = "send" /\ last.error = "NoActiveSession"
  /\ currentSession = Null

\* C3: a sendAudioMessage call of which an awaited step fails (reading or
\* encoding the audio, the transport, a non-success status, an unparsable
\* body) rejects in that step; no step of the call before the two pushes
\* changes the history, and a step that rejects changes neither the history
\* nor the sounds.
C3_FailedSendAppendsNothing ==
  [][\A c \in Slots : (calls[c].op = "send" /\ StepBy(c)) =>
       /\ (calls[c].pc \in BeforePush /\ PostIo(c) # "ok") =>
            SettlesBy(c) /\ last'.result = "rejected"
       /\ (SettlesBy(c) /\ last'.result = "rejected") =>
            /\ calls[c].pc \in BeforePush
            /\ messages' = messages
            /\ UNCHANGED <<audioSound, loadedSounds, playingSounds>>
       /\ calls[c].pc \in {"fetchAudio", "base64"} => messages' = messages
    ]_vars

\* C3 witness: a send was rejected by a non-success status while the history
\* held a turn, which is all the history still holds.
C3_Witness ==
  /\ last.op = "send" /\ last.result = "rejected" /\ last.io = "notok"
  /\ Len(messages) = 2

\* The history alternates user, agent, ... and has even length.
Alternates ==
  /\ Len(messages) % 2 = 0
  /\ \A i \in 1..Len(messages) :
       messages[i].type = IF i % 2 = 1 THEN "user" ELSE "agent"

\* A startConversation call resolves in this step.
StartSucceeds ==
  \E c \in Slots :
    calls[c].op = "start" /\ SettlesBy(c) /\ last'.result = "resolved"

\* C4: in every reachable state the history has even length and alternates
\* user, agent, ...; and every step other than a successful start, which
\* opens a new session, leaves the earlier history a prefix of the later one.
C4_HistoryAlternatesAppendOnly ==
  /\ []Alternates
  /\ [][StartSucceeds \/ IsPrefix(messages, messages')]_vars

\* C4 witness: a session whose history holds two turns.
C4_Witness ==
  /\ currentSession # Null
  /\ Len(messages) = 4
  /\ messages[1].type = "user" /\ messages[4].type = "agent"

\* C5: the step in which the start request succeeds resolves the call and
\* leaves an active session with the returned conversation id and agent id
\* and an empty history, whatever the history was.
C5_StartSetsSessionAndClearsHistory ==
  [][\A c \in Slots :
       (calls[c].op = "start" /\ StepBy(c) /\ PostIo(c) = "ok") =>
         /\ SettlesBy(c) /\ last'.result = "resolved"
         /\ currentSession' # Null
         /\ currentSession'.conversationId = last'.data.conversation_id
         /\ currentSession'.agentId = last'.data.agent_id
         /\ currentSession'.status = "active"
         /\ messages' = <<>>
    ]_vars

\* C5 witness: a start resolved as the third call made and no call is in
\* flight: the session is the returned one and the history is empty.
C5_Witness ==
  /\ last.op = "start" /\ last.result = "resolved" /\ invoked = 3
  /\ \A c \in Slots : calls[c] = Idle
  /\ currentSession = NewSession(last.data)
  /\ last.data.conversation_id = "c2"
  /\ messages = <<>>

\* C6: the step in which the start request fails (transport error, non-success
\* status, unparsable body) rejects the call and changes neither the session,
\* so that a service without a session still has none, nor the history.
C6_FailedStartChangesNothing ==
  [][\A c \in Slots :
       (calls[c].op = "start" /\ StepBy(c) /\ PostIo(c) # "ok") =>
         /\ SettlesBy(c) /\ last'.result = "rejected"
         /\ currentSession' = currentSession
         /\ messages' = messages
    ]_vars

\* C6 witness: a start was rejected by a non-success status and the service
\* has no session.
C6_Witness ==
  /\ last.op = "start" /\ last.result = "rejected" /\ last.io = "notok"
  /\ currentSession = Null

\* C7: endConversation called with no session resolves at once, leaves no
\* operation pending (no request is issued) and changes no state of the
\* service, so any number of such calls in a row changes nothing.
C7_EndWithoutSessionIsNoOp ==
  [][(Invokes("end") /\ currentSession = Null) =>
       /\ calls' = calls
       /\ last'.result = "resolved" /\ last'.io = ""
       /\ UNCHANGED <<manager, device>>
    ]_vars

\* C7 witness: three calls of endConversation in a row, all with no session.
C7_Witness ==
  /\ last.op = "end" /\ last.result = "resolved" /\ last.io = ""
  /\ invoked = 3 /\ currentSession = Null /\ messages = <<>>
  /\ audioRecording = NoHandle /\ audioSound = NoHandle

\* C8: endConversation never rejects.
C8_EndNeverRejects == last.op = "end" => last.result = "resolved"

\* C8 witness: an endConversation resolved although the end request or a
\* release failed.
C8_Witness ==
  /\ last.op = "end" /\ last.result = "resolved"
  /\ last.io \in {"reject", "fail"}

\* C9 (refuted by the code): when an endConversation call that found a session
\* completes, the service has no session and holds neither a recording nor a
\* sound, also when the end request or a release failed.
C9_EndReleasesEverything ==
  [][\A c \in Slots : (calls[c].op = "end" /\ SettlesBy(c)) =>
       /\ currentSession' = Null
       /\ audioRecording' = NoHandle
       /\ audioSound' = NoHandle
    ]_vars

\* C10 (refuted by the code): when an endConversation call completes whose
\* end request and releases all succeeded, getMessages() returns the empty
\* sequence.
C10_EndClearsHistory ==
  [][\A c \in Slots :
       (calls[c].op = "end" /\ SettlesBy(c) /\ last'.io \in {"ok", "notok"}) =>
         getMessages' = <<>>
    ]_vars

\* C11: the array getMessages() returns holds the history as it is at the
\* call, and is a snapshot: no step changes both the caller's array and the
\* history.  So adding, removing or reordering elements of the array leaves
\* the history as it is, and the two pushes of a later sendAudioMessage leave
\* the array as it is.
C11_GetMessagesReturnsSnapshot ==
  [][/\ (snapshot = Null /\ snapshot' # Null) => SnapshotItems' = messages
     /\ SnapshotItems' # SnapshotItems => messages' = messages
     /\ \A c \in Slots :
          (snapshot # Null /\ calls[c].pc = "sendRemote" /\ StepBy(c)) =>
            SnapshotItems' = SnapshotItems
    ]_vars

\* C11 witness: the caller took the array after the first turn and reversed
\* it, a later send appended its two messages, and the history still starts
\* with the user message while the array still has its two elements.
C11_Witness ==
  /\ snapshot # Null
  /\ Len(messages) = 4 /\ messages[1].type = "user"
  /\ snapshot.items = Reverse(SubSeq(messages, 1, 2))

\* The recording the Session Manager holds is recording.
HeldActive == audioRecording # NoHandle /\ audioRecording \in activeRecordings

\* C18: under a caller that awaits every call, a startRecording call that
\* resolves leaves a recording held that is recording; and a startRecording
\* call made while the held recording is recording (no stopRecording and no
\* endConversation since) rejects before a second recording is prepared and
\* leaves the held recording the one that is held.
C18_SecondStartRecordingFails ==
  [][\A c \in Slots : (calls[c].op = "startRec" /\ SettlesBy(c)) =>
       /\ last'.result = "resolved" => HeldActive'
       /\ HeldActive =>
            /\ last'.result = "rejected"
            /\ calls[c].pc \in {"permissions", "audioMode"}
            /\ audioRecording' = audioRecording
            /\ UNCHANGED recordings
    ]_vars

\* C18 witness: the second of two startRecording calls in a row was turned
\* down by the recorder, and the first recording is held and recording.
C18_Witness ==
  /\ invoked = 2
  /\ last.op = "startRec" /\ last.result = "rejected" /\ last.io = "busy"
  /\ HeldActive /\ audioRecording = 1 /\ preparedRecordings = {1}

\* C19: under a caller that awaits every call, stopRecording called while
\* no recording is held rejects at once with the no-active-recording error
\* and changes no state; and the step in which stopAndUnloadAsync succeeds
\* and a URI is there resolves the call with the URI and leaves no recording
\* held, the recording no longer recording (so that a stopRecording that
\* follows at once is of the first kind).
C19_StopRecordingContract ==
  [][/\ (Invokes("stopRec") /\ audioRecording = NoHandle) =>
          /\ calls' = calls
          /\ last'.result = "rejected" /\ last'.error = "NoActiveRecording"
          /\ UNCHANGED <<manager, device>>
     /\ \A c \in Slots :
          (calls[c].op = "stopRec" /\ StepBy(c) /\ PostIo(c) = "ok") =>
            /\ SettlesBy(c) /\ last'.result = "resolved"
            /\ last'.uri \in AudioUris
            /\ audioRecording' = NoHandle
            /\ calls[c].h \notin activeRecordings'
    ]_vars

\* C19 witness: a recording was started and stopRecording resolved with its
\* URI: nothing is held and nothing is recording.
C19_Witness ==
  /\ invoked = 2
  /\ last.op = "stopRec" /\ last.result = "resolved" /\ last.uri = "file:rec1"
  /\ audioRecording = NoHandle /\ activeRecordings = {} /\ ~recorderExists

----------------------------------------------------------------------------
(* The claims about the channel                                            *)

\* The messages on the wire, in the order they were handed over, followed
\* by the messages that wait in the queue.
Outbound == [i \in 1..Len(wire) |-> wire[i].msg] \o messageQueue

\* C12 (refuted by the code): the messages handed to transports and then
\* those in the queue are in call order, none twice; and the step in which
\* a transport reports open hands it exactly the queued messages, in queue
\* order, and leaves the queue empty, so that they precede every message
\* sent after the open.
C12_QueueFlushedInOrderOnOpen ==
  /\ [](\A i, j \in 1..Len(Outbound) : i < j => Outbound[i] < Outbound[j])
  /\ [][\A t \in TransportIds :
          (readyState[t] = "CONNECTING" /\ readyState'[t] = "OPEN") =>
            /\ messageQueue' = <<>>
            /\ wire' = wire \o [i \in 1..Len(messageQueue) |->
                                  Frame(t, messageQueue[i])]
       ]_vars

\* Transport t reports open in this step.
Opens(t) == readyState[t] = "CONNECTING" /\ readyState'[t] = "OPEN"

\* Transport t reports that it closed in this step, after an error or not.
Closes(t) == readyState[t] # "CLOSED" /\ readyState'[t] = "CLOSED"

\* C13: the attempt counter never exceeds 5.  A reconnect is only scheduled
\* in the step in which a transport closes; that step counts the attempt,
\* the n-th in a row, and sets its timer to n x 1000 ms.  A step in which a
\* transport opens puts the counter back to 0.  When a transport closes
\* after 5 attempts, nothing is scheduled and getConnectionState() is
\* 'disconnected'.
C13_ReconnectBackoffBounded ==
  /\ [](reconnectAttempts \in 0..5)
  /\ [][/\ Len(timers') > Len(timers) =>
             /\ \E t \in TransportIds : Closes(t)
             /\ reconnectAttempts' = reconnectAttempts + 1
             /\ timers' = Append(timers, reconnectAttempts' * 1000)
        /\ \A t \in TransportIds :
             /\ Opens(t) => reconnectAttempts' = 0
             /\ (Closes(t) /\ reconnectAttempts < 5) =>
                  Len(timers') = Len(timers) + 1
             /\ (Closes(t) /\ reconnectAttempts = 5) =>
                  /\ timers' = timers
                  /\ reconnectAttempts' = 5
                  /\ getConnectionState' = "disconnected"
       ]_vars

\* C13 witness: the fifth attempt in a row has failed: the counter is 5, no
\* timer is pending, no transport is alive, and the state is 'disconnected'.
C13_Witness ==
  /\ reconnectAttempts = 5 /\ timers = <<>>
  /\ event.op = "error"
  /\ \A t \in TransportIds : readyState[t] = "CLOSED"
  /\ getConnectionState = "disconnected"

\* C14: in the state disconnect() returns in, whatever the state it was
\* called in, the queue is empty, no type has a listener, the counter is 0,
\* isConnected() is false and getConnectionState() is 'disconnected'.
C14_DisconnectResetsChannel ==
  event.op = "disconnect" =>
    /\ messageQueue = <<>>
    /\ \A T \in MessageTypes : listeners[T] = <<>>
    /\ reconnectAttempts = 0
    /\ ~isConnected
    /\ getConnectionState = "disconnected"

\* C14 witness: disconnect() has just closed the socket it held, while a
\* reconnect timer of an earlier close was pending and a message sent
\* before was still queued: the message is gone from the queue and never
\* reached the wire.
C14_Witness ==
  /\ event.op = "disconnect" /\ event.t # NoSocket
  /\ readyState[event.t] = "CLOSING"
  /\ timers # <<>>
  /\ sent = 1 /\ wire = <<>> /\ messageQueue = <<>>

\* C15 (refuted by the code): from disconnect() until the caller calls
\* connect() again, no step schedules a reconnect and no step constructs a
\* transport.
C15_NoReconnectAfterDisconnect ==
  [][(released /\ released') =>
       /\ Len(timers') <= Len(timers)
       /\ \A t \in TransportIds :
            readyState'[t] = "CONNECTING" => readyState[t] = "CONNECTING"
    ]_vars

\* C16 (refuted by the code): the promise of a connect call is resolved in
\* the step in which its transport reports open, and in no other step; the
\* queue is empty when it is resolved; and it is rejected in the step in
\* which its transport reports an error before it opened.
C16_ConnectSettlesWithTransport ==
  [][\A t \in TransportIds :
       /\ (promises'[t] = "resolved" /\ promises[t] # "resolved") =>
            Opens(t) /\ messageQueue' = <<>>
       /\ Opens(t) => promises'[t] = "resolved"
       /\ (readyState[t] = "CONNECTING" /\ Closes(t) /\ event'.op = "error") =>
            promises'[t] = "rejected"
    ]_vars

----------------------------------------------------------------------------
(* The claims about ElevenLabsService                                      *)

\* C20 (refuted by the code): under a caller that awaits every call, when
\* createAsync succeeds for a playAudio call no sound is loaded any more
\* (the sound of the call before has been stopped and unloaded), and after
\* the step the new sound is the one held, the only one loaded and the only
\* one playing; and stopAudio() called while no sound is held resolves at
\* once and changes nothing.
C20_PlayAudioReplacesPrevious ==
  [][/\ \A c \in Slots :
          (calls[c].pc = "createAsync" /\ StepBy(c) /\ PostIo(c) = "ok") =>
            /\ loadedSounds = {}
            /\ currentSound' # NoHandle
            /\ loadedSounds' = {currentSound'}
            /\ playingSounds' = {currentSound'}
     /\ (Invokes("stopAudio") /\ currentSound = NoHandle) =>
          /\ calls' = calls
          /\ last'.result = "resolved"
          /\ UNCHANGED <<currentSound, device>>
    ]_vars

\* C21: every getAvailableVoices call resolves.  When fetch rejected, when
\* the body was not JSON, and when the body carries no true success flag
\* (whatever the HTTP status), it resolves with the built-in catalog, which
\* has exactly 5 voices; a value other than the built-in catalog is only
\* returned for a body whose success flag is true, and is its voices.
C21_VoicesFallBackOnFailure ==
  /\ [](Len(FallbackVoices) = 5)
  /\ [][\A c \in Slots : (calls[c].op = "voices" /\ SettlesBy(c)) =>
          /\ last'.result = "resolved"
          /\ LET response == last'.data.response
                 returned == last'.data.returned
                 parsed == last'.io = "ok" /\ response.text
                 success == /\ parsed
                            /\ response.body # Null
                            /\ "success" \in DOMAIN response.body
                            /\ response.body.success
             IN /\ ~success => returned = FallbackVoices
                /\ success => returned = Property(response.body, "voices")
       ]_vars

\* C21 witness: the endpoint answered with status 500 and an error body
\* whose success flag is false, and the call resolved with the 5 built-in
\* voices.
C21_Witness ==
  /\ last.op = "voices" /\ last.result = "resolved" /\ last.io = "ok"
  /\ last.data.response.status = 500
  /\ last.data.response.body = [success |-> FALSE, error |-> "upstream failed"]
  /\ last.data.returned = FallbackVoices /\ Len(last.data.returned) = 5

----------------------------------------------------------------------------
(* The claims about the PracticeScreen                                     *)

\* The handler of the screen that awaits the invocation of method op in
\* slot c goes on in this step.
ScreenResumes(c, handler, op) ==
  /\ calls[c].by = handler /\ calls[c].op = op
  /\ calls'[c] = Idle \/ calls'[c].by # handler \/ calls'[c].op # op

\* The same, and the invocation resolved.
ScreenResolves(c, handler, op) ==
  /\ ScreenResumes(c, handler, op)
  /\ last'.op = op /\ last'.result = "resolved"

\* The step is a press of the microphone that stops the capture.
StopPress == mounted /\ isRecording /\ ~isRecording'

\* C22 (refuted by the code): a turn of the mounted screen goes idle -> listening -> processing ->
\* speaking -> idle.  The capture start that resolves enters listening from
\* idle; the press that stops the capture finds the state listening and
\* enters processing (idle when the stop fails at once); the send that
\* resolves finds the state processing and enters speaking with the history
\* of the service, which ends with the user and the agent message, as the
\* messages shown; speaking is entered in no other step, and it is left only
\* by the timeout, to idle.
C22_TurnSequence ==
  [][/\ \A c \in Slots :
          /\ (mounted /\ ScreenResolves(c, "startRecording", "startRec"))
               => /\ conversationState \in {"idle", "listening"}
                  /\ conversationState' = "listening"
          /\ (mounted /\ ScreenResolves(c, "stopRecording", "send"))
               => /\ conversationState = "processing"
                  /\ conversationState' = "speaking"
                  /\ shownMessages' = messages'
                  /\ Len(shownMessages') >= 2
                  /\ shownMessages'[Len(shownMessages') - 1].type = "user"
                  /\ shownMessages'[Len(shownMessages')].type = "agent"
     /\ StopPress
          => /\ conversationState = "listening"
             /\ conversationState' \in {"processing", "idle"}
     /\ (conversationState' = "speaking" /\ conversationState # "speaking")
          => \E c \in Slots : ScreenResolves(c, "stopRecording", "send")
     /\ (mounted' /\ conversationState = "speaking"
           /\ conversationState' # "speaking")
          => settleTimers' < settleTimers /\ conversationState' = "idle"
    ]_vars

\* C23: a press of the microphone that finds the button disabled, or that
\* calls startRecording while no session is stored or the state is not idle,
\* starts no invocation of the service, makes and starts no recording, and
\* leaves the five states of the screen as they are.
C23_RefusedCaptureChangesNothing ==
  [][((\E c \in Slots : MicrophonePressed(c))
        /\ \/ shownSession = Null
           \/ conversationState \in {"processing", "speaking"}
           \/ ~isRecording /\ conversationState # "idle")
       => UNCHANGED <<display, calls, last, manager, device>>
    ]_vars

\* The button is enabled (a session is stored, the state is listening) and
\* no capture runs, so that the press called startRecording, which did
\* nothing.
C23_Witness ==
  /\ mounted /\ alerts = <<>> /\ gesture = "ignored"
  /\ shownSession # Null /\ conversationState = "listening" /\ ~isRecording
  /\ ~MicrophoneDisabled
  /\ audioRecording = NoHandle /\ activeRecordings = {}
  /\ \A c \in Slots : calls[c] = Idle

\* C24 (refuted by the code): whenever the service holds a recording
\* (this.audioRecording is set) and no stopRecording call is at work on it,
\* the state of the mounted screen is listening.
C24_RecordingOnlyWhileListening ==
  (/\ mounted
   /\ audioRecording # NoHandle
   /\ \A c \in Slots : calls[c].op # "stopRec")
    => conversationState = "listening"

\* C25 (refuted by the code): in the step in which the state of the mounted
\* screen becomes listening no sound is playing, and in the step in which
\* it becomes speaking the service holds no recording and the device
\* records nothing.
C25_CaptureAndPlaybackApart ==
  [][/\ (mounted /\ conversationState # "listening"
           /\ conversationState' = "listening")
          => playingSounds' = {}
     /\ (mounted /\ conversationState # "speaking"
           /\ conversationState' = "speaking")
          => audioRecording' = NoHandle /\ activeRecordings' = {}
    ]_vars

\* C26 (refuted by the code): when every pending operation completes and
\* the user keeps pressing the microphone and answering the dialogs without
\* ending the session, a screen in listening or processing reaches idle.
C26_NeverStuck ==
  (mounted /\ conversationState \in {"listening", "processing"})
    ~> (conversationState = "idle")

\* C27: while the start call made by initializeConversation is in flight
\* and the screen is mounted, the state is processing and the status
\* connecting.  When the call resolves the state becomes idle, the session
\* shown is the one the service stored and the status connected; when it
\* rejects the state becomes idle, neither the screen nor the service has a
\* session, the status is disconnected and a native build offers 'Retry'.
\* 'Retry' calls startConversation again and sets processing and connecting.
C27_Bootstrap ==
  /\ [](\A c \in Slots :
          (mounted /\ calls[c].by = "initializeConversation")
            => /\ calls[c].op = "start"
               /\ conversationState = "processing"
               /\ connectionStatus = "connecting")
  /\ [][/\ \A c \in Slots :
             (mounted /\ ScreenResumes(c, "initializeConversation", "start"))
               => /\ conversationState' = "idle"
                  /\ IF last'.result = "resolved"
                     THEN /\ shownSession' = NewSession(last'.data)
                          /\ shownSession' = currentSession'
                          /\ connectionStatus' = "connected"
                     ELSE /\ shownSession' = Null
                          /\ currentSession' = Null
                          /\ connectionStatus' = "disconnected"
                          /\ native => alerts' = Append(alerts, "Connection Error")
        /\ (\E c \in Slots : RetryPressed(c))
             => /\ \E c \in Slots :
                     /\ calls[c] = Idle
                     /\ calls'[c].op = "start"
                     /\ calls'[c].by = "initializeConversation"
                /\ mounted => /\ conversationState' = "processing"
                              /\ connectionStatus' = "connecting"
       ]_vars

\* The start call of a mounted screen resolved: the screen shows the
\* session the service holds, and the dialog is up.
C27_Witness ==
  /\ mounted /\ native
  /\ last.op = "start" /\ last.result = "resolved"
  /\ alerts = <<"Session Started">>
  /\ conversationState = "idle" /\ connectionStatus = "connected"
  /\ shownSession # Null /\ shownSession = currentSession
  /\ \A c \in Slots : calls[c] = Idle

\* The handler of the 'End Session' button has run to its end in this
\* step: the endConversation() call it awaited settled, or returned at once.
EndSessionCompletes ==
  \/ \E c \in Slots : ScreenResumes(c, "endSession", "end")
  \/ /\ \E c \in Slots : EndSessionConfirmed(c)
     /\ EndWithoutSession

\* C28 (refuted by the code): when the handler of the 'End Session' button
\* has run to its end, the service has no session and holds neither a
\* recording nor a sound, the screen shows no session and no messages, its
\* status is disconnected, its state idle and its recording flag false, and
\* onResetProfile has been called once.
C28_EndSessionResets ==
  [][EndSessionCompletes
       => /\ currentSession' = Null
          /\ audioRecording' = NoHandle /\ audioSound' = NoHandle
          /\ shownSession' = Null /\ shownMessages' = <<>>
          /\ connectionStatus' = "disconnected"
          /\ conversationState' = "idle"
          /\ ~isRecording'
          /\ resets' = 1
    ]_vars

----------------------------------------------------------------------------
(* The claim about the conversation endpoint                               *)

\* The request of the invocation that returned cannot be served: its body
\* is not JSON or not an object, a setting is missing, the action is
\* unknown, the upstream fetch failed, or the upstream response has a
\* status other than success or a body that is not JSON.
CannotServe(d) ==
  \/ ~d.request.text
  \/ d.request.body = Null
  \/ ~Truthy(d.env.apiKey) \/ ~Truthy(d.env.agentId)
  \/ Property(d.request.body, "action") \notin EndpointActions
  \/ d.upstream = Null
  \/ d.upstream.status # 200
  \/ ~d.upstream.text

\* C29 (refuted by the code): the Response of every invocation of the
\* handler is: for OPTIONS, status 200 with no body, and no upstream fetch
\* was issued; for a request that cannot be served, status 500 with a body
\* {error: message} whose message is not empty; and status 200 only when
\* the upstream fetch resolved with a success status.
C29_EndpointAnswers ==
  [][\A c \in Slots :
       (calls[c].op = "serve" /\ calls'[c] = Idle) =>
         LET d == last'.data IN
         IF d.request.method = "OPTIONS"
         THEN d.response = EndpointResponse(200, Null) /\ ~d.fetched
         ELSE /\ CannotServe(d)
                => /\ d.response.status = 500
                   /\ DOMAIN d.response.body = {"error"}
                   /\ Truthy(d.response.body.error)
              /\ d.response.status = 200
                => /\ d.fetched /\ d.upstream # Null
                   /\ d.upstream.status = 200
    ]_vars

----------------------------------------------------------------------------
(* The claims about the Session Manager, continued                         *)

\* C30 (refuted by the code): when the answer to the send_audio request of
\* a sendAudioMessage call arrives while the service has no session (an
\* endConversation call completed after the request was issued), the call
\* appends nothing to the history and starts no playback.
C30_NoEffectAfterEnd ==
  [][\A c \in Slots :
       (/\ calls[c].op = "send" /\ calls[c].pc = "sendRemote"
        /\ StepBy(c)
        /\ currentSession = Null)
         => /\ messages' = messages
            /\ calls'[c].pc \notin {"playUnload", "playCreate", "playStart"}
    ]_vars

----------------------------------------------------------------------------
(* The claims about the teardown of the PracticeScreen                     *)

C32_SessionEndsAfterUnmount ==
  (entered /\ ~mounted) ~> [](currentSession = Null)

----------------------------------------------------------------------------
(* The claims about overlapping calls                                      *)

\* C33 (refuted by the code): when the end request of an endConversation
\* call is answered while the service has another session than the one the
\* request was sent for, the session of the service is kept, so that a
\* sendAudioMessage call that follows is not refused for lack of a session.
C33_EndsOnlyItsSession ==
  [][\A c \in Slots :
       (/\ calls[c].op = "end" /\ calls[c].pc = "fetchEnd"
        /\ StepBy(c)
        /\ currentSession # Null
        /\ currentSession.conversationId # calls[c].data.conversationId)
         => /\ currentSession' = currentSession
            /\ ~SendWithoutSession'
    ]_vars

----------------------------------------------------------------------------
(* The claims about the capture of the PracticeScreen                      *)

\* C34 (refuted by the code): whenever the conversation state shown is
\* listening, a capture is active: the recording flag is set and the
\* service holds a recording.
C34_ListeningMeansCapture ==
  (mounted /\ conversationState = "listening")
    => (isRecording /\ audioRecording # NoHandle)

\* C35 (refuted by the code): at most one recording is started and not yet
\* released, and a recording that runs is the one the service holds or the
\* one a pending stop or cleanup is releasing.
C35_OneRecordingAtATime ==
  /\ Cardinality(activeRecordings) <= 1
  /\ \A rec \in activeRecordings :
       \/ rec = audioRecording
       \/ \E c \in Slots : calls[c].op \in {"stopRec", "end"} /\ calls[c].h = rec

\* C36 (refuted by the code): at most one sound of the Session Manager is
\* loaded and not yet released, and a sound that is loaded is the one the
\* service holds or the one a pending operation of the service unloads.
C36_OnePlaybackAtATime ==
  /\ Cardinality(loadedSounds) <= 1
  /\ \A s \in loadedSounds :
       \/ s = audioSound
       \/ \E c \in Slots : calls[c].pc \in {"playUnload", "endUnloadSound"}
                            /\ calls[c].h = s

----------------------------------------------------------------------------
(* The claims about the channel, continued                                 *)

\* The transports that are connecting or open.
Live == {t \in TransportIds : readyState[t] \in {"CONNECTING", "OPEN"}}

\* C37 (refuted by the code): at most one transport is connecting or open;
\* and the step in which a transport reports that it closed or failed,
\* while this.socket is another transport that is connecting or open,
\* leaves this.socket and the reconnect timers as they are.
C37_OneLiveTransport ==
  [][/\ Cardinality(Live') <= 1
     /\ \A t \in TransportIds :
          (/\ readyState[t] # "CLOSED" /\ readyState'[t] = "CLOSED"
           /\ socket \in Live \ {t})
            => socket' = socket /\ timers' = timers
    ]_vars

\* C39 (refuted by the code): the flush that runs when a transport reports
\* open returns, and it leaves the queue empty.
C39_FlushTerminates ==
  [][\A t \in TransportIds :
       (readyState[t] = "CONNECTING" /\ readyState'[t] = "OPEN")
         => ~hung' /\ messageQueue' = <<>>
    ]_vars

----------------------------------------------------------------------------
(* The claims about the Session Manager, concluded                         *)

\* C38 (refuted by the code): when a stopRecording call that was made with
\* a recording held settles, resolved or rejected, the service holds no
\* recording.
C38_StopReleasesRecording ==
  [][\A c \in Slots :
       (/\ calls[c].op = "stopRec" /\ calls[c].pc = "stopUnload"
        /\ SettlesBy(c))
         => audioRecording' = NoHandle
    ]_vars

====
